---- MODULE Spec2Model ----
(***************************************************************************)
(* The TMInterface client: the shared-memory message protocol of           *)
(* tminterface/interface.py and the threads that touch the mapped region:  *)
(* the worker thread started by register(), the application's main thread  *)
(* (run_client and its signal handler) and the host process on the other   *)
(* side of the region.                                                     *)
(*                                                                         *)
(* The region is modelled byte by byte, with the single file position the  *)
(* mmap object keeps; every seek, read and write of the code is one step.  *)
(***************************************************************************)
EXTENDS Integers, Sequences, FiniteSets, TLC

---------------------------------------------------------------------------
(* Bounds of the model. *)

\* buffer_size handed to TMInterface(); the region is that many bytes.
BufSize == 64
\* How many frames the host may push into the region.
MaxHostWrites == 2
\* How many times SIGINT/SIGBREAK is delivered to run_client's handler.
MaxSignals == 1
\* Largest message payload / vector length drawn for the _write_vector cases.
MaxData == 6
MaxVec == 3

---------------------------------------------------------------------------
(* MessageType (IntEnum with auto(), counting from 1) and the error codes. *)

S_RESPONSE == 1
S_ON_REGISTERED == 2
S_SHUTDOWN == 3
S_ON_RUN_STEP == 4
S_ON_SIM_BEGIN == 5
S_ON_SIM_STEP == 6
S_ON_SIM_END == 7
S_ON_CHECKPOINT_COUNT_CHANGED == 8
S_ON_LAPS_COUNT_CHANGED == 9
S_ON_CUSTOM_COMMAND == 10
S_ON_BRUTEFORCE_EVALUATE == 11
C_REGISTER == 12
C_DEREGISTER == 13
C_PROCESSED_CALL == 14
C_SET_INPUT_STATES == 15
C_RESPAWN == 16
C_HORN == 18
C_SIM_REWIND_TO_STATE == 19
C_SIM_GET_STATE == 20
C_SIM_GET_EVENT_BUFFER == 21
C_GET_CONTEXT_MODE == 22
C_SIM_SET_EVENT_BUFFER == 23
C_GET_CHECKPOINT_STATE == 25
C_SET_GAME_SPEED == 27
C_REGISTER_CUSTOM_COMMAND == 33
C_LOG == 34

RESPONSE_TOO_LONG == 1
CLIENT_ALREADY_REGISTERED == 2
NO_EVENT_BUFFER == 3
NO_PLAYER_INFO == 4
COMMAND_ALREADY_REGISTERED == 5

MAXINT32 == 2147483647

\* get_context_mode: MODE_SIMULATION (0), MODE_RUN (1)
MODE_SIMULATION == 0

\* TIMERS_SIZE + DYNA_SIZE + ... + INPUT_STATE_SIZE, the bytes of the eight
\* buffers of a simulation state; more than any region of the model holds.
StateBuffersSize == 8264

\* BFEvaluationDecision.CONTINUE
CONTINUE == 0

---------------------------------------------------------------------------
(* Wire codec: struct.pack / struct.unpack on little-endian 32-bit ints.   *)

Min(a, b) == IF a < b THEN a ELSE b

Zeros(n) == [i \in 1..n |-> 0]

\* struct.pack('i', n) for n in the int32 range: two's complement, low byte first.
pack_i(n) ==
    LET m == IF n >= 0 THEN n ELSE (n + 2147483647) + 1
        top == m \div 16777216
    IN  << m % 256, (m \div 256) % 256, (m \div 65536) % 256,
           IF n >= 0 THEN top ELSE top + 128 >>

\* struct.unpack('i', arr)[0] for a 4-byte arr.
unpack_i(arr) ==
    LET low == arr[1] + 256 * arr[2] + 65536 * arr[3]
    IN  IF arr[4] < 128
        THEN low + 16777216 * arr[4]
        ELSE ((low + 16777216 * (arr[4] - 128)) - 2147483647) - 1

\* A variant of write_int that writes one byte whatever the size.
write_int_Narrow(n, size) == << n % 256 >>

\* Message.write_int(n, size): the bytes it appends (sizes 1 and 4; the
\* vectors of the modelled calls hold small non-negative values).
write_int(n, size) ==
    IF size = 1 THEN << n % 256 >>
    ELSE IF size = 4 THEN pack_i(n)
    ELSE << >>

\* The integers beyond 2^31 - 1 are kept as hi * 65536 + lo, lo in 0..65535.
\* struct.pack(fmt, n): the bytes, low byte first, or struct.error when n
\* is outside the range of the format.
struct_pack(fmt, n) ==
    LET h == n.hi % 65536
        low == << n.lo % 256, n.lo \div 256 >>
        ok == CASE fmt = "B" -> n.hi = 0 /\ n.lo <= 255
                [] fmt = "h" -> \/ n.hi = 0 /\ n.lo <= 32767
                                \/ n.hi = -1 /\ n.lo >= 32768
                [] fmt = "H" -> n.hi = 0
                [] fmt = "i" -> n.hi \in -32768..32767
                [] fmt = "I" -> n.hi \in 0..65535
    IN  [raised |-> ~ok,
         bytes |-> IF ~ok THEN << >>
                   ELSE IF fmt = "B" THEN << n.lo >>
                   ELSE IF fmt \in {"h", "H"} THEN low
                   ELSE low \o << h % 256, h \div 256 >>]

\* struct.unpack(fmt, arr)[0]
struct_unpack(fmt, arr) ==
    CASE fmt = "B" -> [hi |-> 0, lo |-> arr[1]]
      [] fmt = "H" -> [hi |-> 0, lo |-> arr[1] + 256 * arr[2]]
      [] fmt = "h" -> [hi |-> IF arr[2] >= 128 THEN -1 ELSE 0,
                       lo |-> arr[1] + 256 * arr[2]]
      [] fmt = "I" -> [hi |-> arr[3] + 256 * arr[4], lo |-> arr[1] + 256 * arr[2]]
      [] fmt = "i" -> [hi |-> IF arr[4] >= 128
                              THEN (arr[3] + 256 * arr[4]) - 65536
                              ELSE arr[3] + 256 * arr[4],
                       lo |-> arr[1] + 256 * arr[2]]

\* Message.write_int(n, size) for any integer n: the format is chosen by
\* the size and the value.
write_int_wide(n, size) ==
    IF size = 1 THEN struct_pack("B", n)
    ELSE IF size = 2
    THEN IF n.hi < 0 THEN struct_pack("h", n) ELSE struct_pack("H", n)
    ELSE IF size = 4
    THEN IF n = [hi |-> 65535, lo |-> 65535] THEN struct_pack("I", n)
         ELSE struct_pack("i", n)
    ELSE [raised |-> FALSE, bytes |-> << >>]

---------------------------------------------------------------------------
(* util.py: the conversions of analog input values, on int32.              *)

\* A variant of data_to_analog_value that does not negate.
data_to_analog_value_NoNeg(data) ==
    LET low == data % 16777216
        shl == (IF low >= 8388608 THEN low - 16777216 ELSE low) * 256
    IN  shl \div 256

\* val <<= 8 keeps the low 24 bits of val in the top of the int32 (the
\* bit 23 becomes the sign); val >>= 8 is the arithmetic shift; return -val
data_to_analog_value(data) ==
    LET low == data % 16777216
        shl == (IF low >= 8388608 THEN low - 16777216 ELSE low) * 256
        shr == shl \div 256
    IN  -shr

\* value = -value; value <<= 8; value >>= 8; return value
analog_value_to_data(value) ==
    LET neg == -value
        low == neg % 16777216
        shl == (IF low >= 8388608 THEN low - 16777216 ELSE low) * 256
    IN  shl \div 256

---------------------------------------------------------------------------
(* Message: type, error_code and the payload bytes.                        *)

Message(type) == [type |-> type, error_code |-> 0, data |-> << >>]

\* Message.__len__
MsgLen(m) == 8 + Len(m.data)

\* Message.to_data
to_data(m) == pack_i(m.type) \o pack_i(m.error_code) \o m.data

\* Message.write_int32
write_int32(m, n) == [m EXCEPT !.data = @ \o pack_i(n)]

\* Message.write_double: eight bytes (the value is not looked at by the model).
write_double(m) == [m EXCEPT !.data = @ \o Zeros(8)]

RECURSIVE WriteElems(_, _)
WriteElems(vector, size) ==
    IF vector = << >> THEN << >>
    ELSE write_int(Head(vector), size) \o WriteElems(Tail(vector), size)

\* TMInterface._write_vector(msg, vector, field_sizes) for a scalar
\* field size: the message afterwards and the value returned.
write_vector(m, vector, item_size, buffer_size) ==
    IF MsgLen(m) + 4 > buffer_size
    THEN [msg |-> m, ret |-> FALSE]
    ELSE IF MsgLen(m) + 4 + item_size * Len(vector) > buffer_size
    THEN [msg |-> [write_int32(m, 0) EXCEPT !.error_code = RESPONSE_TOO_LONG],
          ret |-> TRUE]
    ELSE [msg |-> [write_int32(m, Len(vector)) EXCEPT
                      !.data = @ \o WriteElems(vector, item_size)],
          ret |-> TRUE]

\* sum(field_sizes)
RECURSIVE Sum(_)
Sum(sizes) == IF sizes = << >> THEN 0 ELSE Head(sizes) + Sum(Tail(sizes))

\* for elem in vector: for i, field in enumerate(elem): write_int(field, field_sizes[i])
RECURSIVE WriteTuples(_, _, _, _)
WriteTuples(vector, sizes, e, f) ==
    IF e > Len(vector) THEN << >>
    ELSE IF f > Len(sizes) THEN WriteTuples(vector, sizes, e + 1, 1)
    ELSE write_int(vector[e][f], sizes[f]) \o WriteTuples(vector, sizes, e, f + 1)

\* TMInterface._write_vector(msg, vector, field_sizes) for a list of field
\* sizes (a vector of tuples).
write_vector_list(m, vector, field_sizes, buffer_size) ==
    IF MsgLen(m) + 4 > buffer_size
    THEN [msg |-> m, ret |-> FALSE]
    ELSE IF MsgLen(m) + 4 + Sum(field_sizes) * Len(vector) > buffer_size
    THEN [msg |-> [write_int32(m, 0) EXCEPT !.error_code = RESPONSE_TOO_LONG],
          ret |-> TRUE]
    ELSE [msg |-> [write_int32(m, Len(vector)) EXCEPT
                      !.data = @ \o WriteTuples(vector, field_sizes, 1, 1)],
          ret |-> TRUE]

---------------------------------------------------------------------------
(* The messages the request methods build.                                 *)

\* A variant of set_input_state that writes 0 for a binary keyword not passed.
SetInputStatesMsg_Unset0(kwargs) ==
    LET binary(k) == IF k \in DOMAIN kwargs /\ kwargs[k] THEN 1 ELSE 0
        analog(k) == IF k \in DOMAIN kwargs THEN kwargs[k] ELSE MAXINT32
        m1 == write_int32(Message(C_SET_INPUT_STATES), binary("left"))
        m2 == write_int32(m1, binary("right"))
        m3 == write_int32(m2, binary("accelerate"))
        m4 == write_int32(m3, binary("brake"))
        m5 == write_int32(m4, analog("steer"))
    IN  write_int32(m5, analog("gas"))

\* set_input_state(**kwargs), lines 309-338: kwargs is a function from the
\* keywords passed to their values.
SetInputStatesMsg(kwargs) ==
    LET binary(k) == IF k \in DOMAIN kwargs
                     THEN (IF kwargs[k] THEN 1 ELSE 0) ELSE -1
        analog(k) == IF k \in DOMAIN kwargs THEN kwargs[k] ELSE MAXINT32
        m1 == write_int32(Message(C_SET_INPUT_STATES), binary("left"))
        m2 == write_int32(m1, binary("right"))
        m3 == write_int32(m2, binary("accelerate"))
        m4 == write_int32(m3, binary("brake"))
        m5 == write_int32(m4, analog("steer"))
    IN  write_int32(m5, analog("gas"))

\* log(message, severity): message is the list of character codes.
LogMsg(message, severity, buffer_size) ==
    LET severity_id == CASE severity = "success" -> 1
                         [] severity = "warning" -> 2
                         [] severity = "error" -> 3
                         [] OTHER -> 0
    IN  write_vector(write_int32(Message(C_LOG), severity_id),
                     message, 1, buffer_size).msg

\* set_event_buffer(data): ten -1 fields, events_duration and the events
\* as (time, data) pairs.
RECURSIVE WriteMinusOnes(_, _)
WriteMinusOnes(m, k) ==
    IF k = 0 THEN m ELSE WriteMinusOnes(write_int32(m, -1), k - 1)

SetEventBufferMsg(events_duration, events, buffer_size) ==
    write_vector_list(
        write_int32(WriteMinusOnes(Message(C_SIM_SET_EVENT_BUFFER), 10),
                    events_duration),
        events, << 4, 4 >>, buffer_size).msg

\* _send_message(m) on a region of its own: the region afterwards, or the
\* ValueError of mmap.write when the data does not fit.
SendInto(region, m) ==
    LET d == to_data(m)
    IN  IF Len(d) > Len(region) \/ Len(region) < 2
        THEN [raised |-> TRUE, region |-> region]
        ELSE [raised |-> FALSE,
              region |-> [i \in 1..Len(region) |->
                            IF i = 2 THEN 255
                            ELSE IF i <= Len(d) THEN d[i] ELSE region[i]]]

---------------------------------------------------------------------------
(* State.                                                                  *)

Threads == {"w", "a"}   \* the worker thread and the application's main thread

VARIABLES
    buf,        \* the bytes of the shared region
    pos,        \* the file position of the mmap object (shared by all callers)
    mfile,      \* TMInterface.mfile is not None
    running,    \* TMInterface.running
    registered, \* TMInterface.registered
    client,     \* TMInterface.client is not None
    thread,     \* TMInterface.thread is not None
    pc,         \* where each thread is
    stk,        \* each thread's return addresses
    msg,        \* the Message each thread is handing to _send_message
    clear,      \* the worker's `clear` argument of _wait_for_server_response
    msgtype,    \* the worker's msgtype in _process_server_message
    resp,       \* the worker's resp in _on_bruteforce_validate_call
    frame,      \* the worker's locals inside a call a hook makes on the interface
    hostWrites, \* frames the host has pushed so far
    signals,    \* signals delivered so far
    obs,        \* what has been observed of the run (history only)
    vin,        \* the arguments of a _write_vector call
    vout        \* what that call left behind

vars == << buf, pos, mfile, running, registered, client, thread, pc, stk, msg,
           clear, msgtype, resp, frame, hostWrites, signals, obs, vin, vout >>

iface == << mfile, running, registered, client, thread >>
locals == << clear, msgtype, resp, frame >>
pure == << vin, vout >>
env == << hostWrites, signals, pure >>

None == [type |-> 0, error_code |-> 0, data |-> << >>]

\* S_RESPONSE | 0xFF00
ResponseTag == 65281

\* on_bruteforce_evaluate returning None
NoResult == [none |-> TRUE, decision |-> 0, rewind_time |-> 0]

NoVec == [msg |-> None, ret |-> FALSE, done |-> FALSE]

\* No call is in progress: the method the hook called (outer) and its flag
\* argument, the query method running (call), the values it has read (mode,
\* err), the region as it was when the response tag was seen with
\* clear=False (snap), the values decoded (result), whether the query has
\* returned, the exception raised, and the snapshot the client held when the
\* call began (held0, history only).
NoFrame == [outer |-> "", call |-> "", flag |-> FALSE, mode |-> -1, err |-> 0,
            snap |-> << >>, result |-> << >>, returned |-> FALSE, exc |-> "",
            held0 |-> << >>]

InitIface ==
    /\ buf = Zeros(BufSize)
    /\ pos = 0
    \* TMInterface.__init__
    /\ mfile = FALSE
    /\ running = TRUE
    /\ registered = FALSE
    /\ client = FALSE
    /\ thread = FALSE
    /\ pc = [t \in Threads |-> IF t = "w" THEN "idle" ELSE "start"]
    /\ stk = [t \in Threads |-> << >>]
    /\ msg = [t \in Threads |-> None]
    /\ clear = TRUE
    /\ msgtype = 0
    /\ resp = [decision |-> CONTINUE, rewind_time |-> -1]
    /\ frame = NoFrame
    /\ hostWrites = 0
    /\ signals = 0
    /\ obs = [nRegister |-> 0, regResp |-> FALSE, dispatched |-> FALSE,
              taken |-> 0, acks |-> 0, ackData |-> << >>, cbs |-> << >>,
              nOnReg |-> 0, nRegMsgs |-> 0, nDereg |-> 0, hostAck |-> FALSE,
              pending |-> FALSE, clobbered |-> FALSE, bfRet |-> NoResult,
              hookExc |-> FALSE, earlyPush |-> FALSE,
              mapFail |-> FALSE, mapExc |-> 0, dupCmd |-> FALSE,
              reqs |-> << >>, unclean |-> FALSE, held |-> << >>,
              regRet |-> << >>, hostDereg |-> FALSE,
              msgArgs |-> << >>, hookArgs |-> << >>, hooked |-> FALSE,
              awaiting |-> FALSE, nDeregMsgs |-> 0, regErr |-> 0]

Init ==
    /\ InitIface
    /\ vin = [msg |-> None, vector |-> << >>, item_size |-> 1, buffer_size |-> 8]
    /\ vout = NoVec

---------------------------------------------------------------------------
(* The mmap object: read and write move the one file position.             *)

\* mmap.write(d) raises ValueError when d does not fit after pos.
mm_fits(d) == pos + Len(d) <= BufSize

mm_write(d) == [i \in 1..BufSize |->
                   IF i > pos /\ i <= pos + Len(d) THEN d[i - pos] ELSE buf[i]]

\* TMInterface._read(4, 'i') at position p of region b: the value (0 after a
\* short read, which is reported through on_client_exception) and the position after.
read_int32_at(b, p) ==
    LET arr == SubSeq(b, p + 1, Min(p + 4, Len(b)))
    IN  [v |-> IF Len(arr) = 4 THEN unpack_i(arr) ELSE 0,
         p |-> p + Len(arr),
         short |-> Len(arr) # 4]

\* A variant of _read without the try/except: the struct.error gets out.
read_int_Unguarded(b, p, size) ==
    LET arr == SubSeq(b, p + 1, Min(p + size, Len(b)))
    IN  [v |-> IF Len(arr) # size THEN 0
               ELSE IF size = 1 THEN arr[1] ELSE unpack_i(arr),
         p |-> p + Len(arr),
         excs |-> 0,
         raised |-> Len(arr) # size]

\* TMInterface._read_int(size) for sizes 1 and 4 at position p of region b:
\* _read catches the struct.error of a short read, reports it through
\* on_client_exception (excs counts the reports) and returns 0.
read_int(b, p, size) ==
    LET arr == SubSeq(b, p + 1, Min(p + size, Len(b)))
    IN  [v |-> IF Len(arr) # size THEN 0
               ELSE IF size = 1 THEN arr[1] ELSE unpack_i(arr),
         p |-> p + Len(arr),
         excs |-> IF Len(arr) # size THEN 1 ELSE 0,
         raised |-> FALSE]

\* for _ in range(size): vec.append(self._read_int(field_sizes))
RECURSIVE read_items(_, _, _, _)
read_items(b, p, k, size) ==
    IF k <= 0 THEN [vals |-> << >>, p |-> p, excs |-> 0, raised |-> FALSE]
    ELSE LET r == read_int(b, p, size)
         IN  IF r.raised
             THEN [vals |-> << >>, p |-> r.p, excs |-> r.excs, raised |-> TRUE]
             ELSE LET rest == read_items(b, r.p, k - 1, size)
                  IN  [vals |-> << r.v >> \o rest.vals, p |-> rest.p,
                       excs |-> r.excs + rest.excs, raised |-> rest.raised]

\* TMInterface.__read_vector(field_sizes) for a scalar field size, on a
\* region of buffer_size = Len(b) bytes.
read_vector(b, p, size) ==
    IF p + 4 > Len(b)
    THEN [vals |-> << >>, p |-> p, excs |-> 0, raised |-> FALSE]
    ELSE LET c == read_int(b, p, 4)
         IN  IF c.raised
             THEN [vals |-> << >>, p |-> c.p, excs |-> 0, raised |-> TRUE]
             ELSE LET r == read_items(b, c.p, c.v, size)
                  IN  [r EXCEPT !.excs = @ + c.excs]

\* k consecutive _read_int32 calls.
RECURSIVE read_ints(_, _, _)
read_ints(b, p, k) ==
    IF k = 0 THEN [vals |-> << >>, p |-> p]
    ELSE LET r == read_int32_at(b, p)
             rest == read_ints(b, r.p, k - 1)
         IN  [vals |-> << r.v >> \o rest.vals, p |-> rest.p]

\* TMInterface.__read_vector(1): the position after reading a vector of bytes.
read_vector_end(b, p) ==
    IF p + 4 > BufSize THEN p
    ELSE LET r == read_int32_at(b, p)
         IN  IF r.v <= 0 THEN r.p
             ELSE IF r.v >= Len(b) - r.p THEN Len(b) ELSE r.p + r.v

\* k consecutive _read_string calls; once fewer than four bytes are left
\* every further call returns at once and leaves the position alone.
RECURSIVE read_strings_end(_, _, _)
read_strings_end(b, p, k) ==
    IF k <= 0 \/ p + 4 > BufSize THEN p
    ELSE read_strings_end(b, read_vector_end(b, p), k - 1)

---------------------------------------------------------------------------
(* Calls and returns.                                                      *)

Goto(t, l) == pc' = [pc EXCEPT ![t] = l]

Call(t, entry, rets) ==
    /\ pc' = [pc EXCEPT ![t] = entry]
    /\ stk' = [stk EXCEPT ![t] = rets \o @]

Return(t) ==
    /\ pc' = [pc EXCEPT ![t] = Head(stk[t])]
    /\ stk' = [stk EXCEPT ![t] = Tail(@)]

\* An exception is raised in thread t.
Die(t) == pc' = [pc EXCEPT ![t] = "raise"]

---------------------------------------------------------------------------
(* TMInterface._send_message, one step per mmap call.                       *)

Send_Seek0(t) ==
    /\ pc[t] = "send_seek0"
    /\ IF ~mfile
       THEN Return(t) /\ UNCHANGED pos
       ELSE Goto(t, "send_write") /\ pos' = 0 /\ UNCHANGED stk
    /\ UNCHANGED << buf, iface, msg, locals, env, obs >>

\* What the write of message m by thread t adds to the history.
ObsWrite(t, m) ==
    [obs EXCEPT
        !.nRegister = IF m.type = C_REGISTER THEN @ + 1 ELSE @,
        !.nDeregMsgs = IF m.type = C_DEREGISTER THEN @ + 1 ELSE @,
        !.acks = IF t = "w" /\ m.type = C_PROCESSED_CALL THEN @ + 1 ELSE @,
        !.ackData = IF t = "w" /\ m.type = C_PROCESSED_CALL THEN m.data ELSE @,
        !.pending = IF t = "w" THEN Head(stk[t]) = "wait_seek" ELSE @,
        !.reqs = IF t = "w" /\ Head(stk[t]) = "wait_seek" /\ frame.outer # ""
                      /\ frame.exc = ""
                 THEN Append(@, m.type) ELSE @,
        !.unclean = @ \/ (t = "w" /\ Head(stk[t]) = "wait_seek" /\ obs.pending),
        !.awaiting = @ \/ (t = "w" /\ Head(stk[t]) = "wait_seek"),
        !.clobbered = @ \/ (t = "a" /\ obs.pending)]

Send_Write(t) ==
    /\ pc[t] = "send_write"
    /\ IF mm_fits(to_data(msg[t]))
       THEN /\ buf' = mm_write(to_data(msg[t]))
            /\ pos' = pos + Len(to_data(msg[t]))
            /\ Goto(t, "send_seek1")
            /\ obs' = ObsWrite(t, msg[t])
       ELSE Die(t) /\ UNCHANGED << buf, pos, obs >>
    /\ UNCHANGED << stk, iface, msg, locals, env >>

Send_Seek1(t) ==
    /\ pc[t] = "send_seek1"
    /\ pos' = 1
    /\ Goto(t, "send_mark")
    /\ UNCHANGED << buf, stk, iface, msg, locals, env, obs >>

Send_Mark(t) ==
    /\ pc[t] = "send_mark"
    /\ IF mm_fits(<< 255 >>)
       THEN buf' = mm_write(<< 255 >>) /\ pos' = pos + 1 /\ Return(t)
       ELSE Die(t) /\ UNCHANGED << buf, pos, stk >>
    /\ UNCHANGED << iface, msg, locals, env, obs >>

\* `self._send_message(m)` followed by `self._wait_for_server_response(clr)`
\* by the worker, continuing at ret.
Request(m, clr, ret) ==
    /\ msg' = [msg EXCEPT !["w"] = m]
    /\ clear' = clr
    /\ Call("w", "send_seek0", << "wait_seek", ret >>)

---------------------------------------------------------------------------
(* TMInterface._wait_for_server_response and _clear_buffer (worker only).   *)

\* the test that ends the wait loop
IsResponse(v) == v = ResponseTag

Wait_Seek ==
    /\ pc["w"] = "wait_seek"
    /\ IF ~mfile
       THEN Return("w") /\ UNCHANGED pos
       ELSE Goto("w", "wait_read") /\ pos' = 0 /\ UNCHANGED stk
    /\ UNCHANGED << buf, iface, msg, locals, env, obs >>

Wait_Read ==
    /\ pc["w"] = "wait_read"
    /\ LET r == read_int32_at(buf, pos)
       IN  /\ pos' = r.p
           /\ IF IsResponse(r.v)
              THEN /\ IF clear
                      THEN Goto("w", "clr_seek") /\ UNCHANGED stk
                      ELSE Return("w")
                   /\ obs' = [obs EXCEPT
                         !.regResp = @ \/ (Head(stk["w"]) = "reg_set"
                                           /\ r.v = 65281),
                         !.regErr = IF Head(stk["w"]) = "reg_set"
                                    THEN read_int32_at(buf, 4).v ELSE @,
                         !.awaiting = FALSE]
              ELSE Goto("w", "wait_seek") /\ UNCHANGED << stk, obs >>
           /\ frame' = IF IsResponse(r.v) /\ ~clear
                       THEN [frame EXCEPT !.snap = buf] ELSE frame
    /\ UNCHANGED << buf, iface, msg, clear, msgtype, resp, env >>

Clear_Seek ==
    /\ pc["w"] = "clr_seek"
    /\ pos' = 0
    /\ Goto("w", "clr_write")
    /\ UNCHANGED << buf, stk, iface, msg, locals, env, obs >>

Clear_Write ==
    /\ pc["w"] = "clr_write"
    /\ IF mm_fits(Zeros(BufSize))
       THEN /\ buf' = mm_write(Zeros(BufSize))
            /\ pos' = pos + BufSize
            /\ Return("w")
            /\ obs' = [obs EXCEPT !.pending = FALSE]
       ELSE Die("w") /\ UNCHANGED << buf, pos, stk, obs >>
    /\ UNCHANGED << iface, msg, locals, env >>

---------------------------------------------------------------------------
(* TMInterface.close, by the worker (S_SHUTDOWN) or the signal handler.     *)

DeregisterMsg == write_int32(Message(C_DEREGISTER), 0)

Close_Check(t) ==
    /\ pc[t] = "close_chk"
    /\ IF registered
       THEN /\ msg' = [msg EXCEPT ![t] = DeregisterMsg]
            /\ Call(t, "send_seek0", << "close_cb" >>)
       ELSE Goto(t, "close_run") /\ UNCHANGED << msg, stk >>
    /\ UNCHANGED << buf, pos, iface, locals, env, obs >>

\* A variant of the step below that forgets the client as well.
Close_Callback_Forgets(t) ==
    /\ pc[t] = "close_cb"
    /\ thread' = FALSE
    /\ registered' = FALSE
    /\ client' = FALSE
    /\ Goto(t, "close_run")
    /\ obs' = [obs EXCEPT !.nDereg = @ + 1,
                          !.cbs = IF t = "w" THEN Append(@, "on_deregistered") ELSE @]
    /\ UNCHANGED << buf, pos, mfile, running, stk, msg, locals, env >>

\* A variant of the step below that also resets the registered flag.
Close_Callback_Resets(t) ==
    /\ pc[t] = "close_cb"
    /\ thread' = FALSE
    /\ registered' = FALSE
    /\ Goto(t, "close_run")
    /\ obs' = [obs EXCEPT !.nDereg = @ + 1,
                          !.cbs = IF t = "w" THEN Append(@, "on_deregistered") ELSE @]
    /\ UNCHANGED << buf, pos, mfile, running, client, stk, msg, locals, env >>

\* self.client.on_deregistered(self); self.thread = None
Close_Callback(t) ==
    /\ pc[t] = "close_cb"
    /\ thread' = FALSE
    /\ Goto(t, "close_run")
    /\ obs' = [obs EXCEPT !.nDereg = @ + 1,
                          !.cbs = IF t = "w" THEN Append(@, "on_deregistered") ELSE @]
    /\ UNCHANGED << buf, pos, mfile, running, registered, client, stk, msg,
                    locals, env >>

Close_Run(t) ==
    /\ pc[t] = "close_run"
    /\ running' = FALSE
    /\ Return(t)
    /\ UNCHANGED << buf, pos, mfile, registered, client, thread, msg, locals,
                    env, obs >>

---------------------------------------------------------------------------
(* TMInterface._main_thread.                                                *)

\* while self.running:
\* A variant of the loop head that does not test self.running.
W_Loop_Always ==
    /\ pc["w"] = "loop"
    /\ Goto("w", "connect")
    /\ UNCHANGED << buf, pos, stk, iface, msg, locals, env, obs >>

W_Loop ==
    /\ pc["w"] = "loop"
    /\ Goto("w", IF running THEN "connect" ELSE "done")
    /\ UNCHANGED << buf, pos, stk, iface, msg, locals, env, obs >>

\* A variant of _ensure_connected in which a failed mmap is not caught.
W_Connect_Fatal ==
    /\ pc["w"] = "connect"
    /\ IF mfile
       THEN Goto("w", "chk_reg") /\ UNCHANGED << mfile, pos >>
       ELSE \E ok \in BOOLEAN :
              IF ok
              THEN mfile' = TRUE /\ pos' = 0 /\ Goto("w", "chk_reg")
              ELSE Die("w") /\ UNCHANGED << mfile, pos >>
    /\ UNCHANGED << buf, running, registered, client, thread, stk, msg,
                    locals, env, obs >>

\* _ensure_connected; a failed mmap is reported through on_client_exception
\* (mapExc counts the reports of this attempt) and the loop continues.
W_Connect ==
    /\ pc["w"] = "connect"
    /\ IF mfile
       THEN /\ Goto("w", "chk_reg")
            /\ obs' = [obs EXCEPT !.mapFail = FALSE, !.mapExc = 0]
            /\ UNCHANGED << mfile, pos >>
       ELSE \E ok \in BOOLEAN :
              IF ok
              THEN /\ mfile' = TRUE /\ pos' = 0 /\ Goto("w", "chk_reg")
                   /\ obs' = [obs EXCEPT !.mapFail = FALSE, !.mapExc = 0]
              ELSE /\ Goto("w", "loop")
                   /\ obs' = [obs EXCEPT !.mapFail = TRUE, !.mapExc = 1]
                   /\ UNCHANGED << mfile, pos >>
    /\ UNCHANGED << buf, running, registered, client, thread, stk, msg,
                    locals, env >>

\* if not self.registered:
\* Variants of the test below: a loop that registers on every pass, and a
\* loop that never registers.
NeedsRegister_Always == TRUE

NeedsRegister_Never == FALSE

NeedsRegister == ~registered

\* ... send C_REGISTER, wait for the response, self.registered = True
W_CheckRegistered ==
    /\ pc["w"] = "chk_reg"
    /\ IF NeedsRegister
       THEN Request(Message(C_REGISTER), TRUE, "reg_set")
       ELSE Goto("w", "poll") /\ UNCHANGED << stk, msg, clear >>
    /\ UNCHANGED << buf, pos, iface, msgtype, resp, frame, env, obs >>

\* A variant of the step below that registers only on error code 0.
W_SetRegistered_IfOk ==
    /\ pc["w"] = "reg_set"
    /\ registered' = (obs.regErr = 0)
    /\ Goto("w", "poll")
    /\ UNCHANGED << buf, pos, mfile, running, client, thread, stk, msg,
                    locals, env, obs >>

\* self.registered = True
W_SetRegistered ==
    /\ pc["w"] = "reg_set"
    /\ registered' = TRUE
    /\ Goto("w", "poll")
    /\ UNCHANGED << buf, pos, mfile, running, client, thread, stk, msg,
                    locals, env, obs >>

\* time.sleep(0) at the end of an iteration; the locals of
\* _process_server_message are gone, and the history of the message with them.
W_IterEnd ==
    /\ pc["w"] = "iter_end"
    /\ Goto("w", "loop")
    /\ msg' = [msg EXCEPT !["w"] = None]
    /\ clear' = TRUE
    /\ msgtype' = 0
    /\ resp' = [decision |-> CONTINUE, rewind_time |-> -1]
    /\ frame' = NoFrame
    /\ obs' = [obs EXCEPT !.taken = 0, !.acks = 0, !.ackData = << >>,
                          !.cbs = << >>, !.bfRet = NoResult, !.reqs = << >>,
                          !.msgArgs = << >>, !.hookArgs = << >>,
                          !.hooked = FALSE, !.regErr = 0]
    /\ UNCHANGED << buf, pos, stk, iface, env >>

---------------------------------------------------------------------------
(* TMInterface._process_server_message.                                     *)

\* How many int32 arguments are read before the hook of a message.
NumArgs(mt) ==
    CASE mt \in {S_ON_RUN_STEP, S_ON_SIM_STEP, S_ON_SIM_END,
                 S_ON_LAPS_COUNT_CHANGED} -> 1
      [] mt = S_ON_CHECKPOINT_COUNT_CHANGED -> 2
      [] mt = S_ON_CUSTOM_COMMAND -> 3
      [] mt = S_ON_BRUTEFORCE_EVALUATE -> 11
      [] OTHER -> 0

\* The int32 fields of a frame: the k values that lie at offset p of region b,
\* four bytes each (0 where fewer than four bytes are left).
ints_at(b, p, k) ==
    [i \in 1..k |-> read_int32_at(b, Min(p + 4 * (i - 1), Len(b))).v]

\* msgtype & 0xFF00 and msgtype & 0xFF of a 32-bit value
MarkerBits(v) == pack_i(v)[2]
LowByte(v) == pack_i(v)[1]

W_PollSeek ==
    /\ pc["w"] = "poll"
    /\ IF ~mfile
       THEN Goto("w", "iter_end") /\ UNCHANGED pos
       ELSE Goto("w", "poll_read") /\ pos' = 0
    /\ UNCHANGED << buf, stk, iface, msg, locals, env, obs >>

W_PollRead ==
    /\ pc["w"] = "poll_read"
    /\ LET r == read_int32_at(buf, pos)
       IN  /\ pos' = r.p
           /\ IF MarkerBits(r.v) = 0
              THEN Goto("w", "iter_end") /\ UNCHANGED << msgtype, obs >>
              ELSE /\ msgtype' = LowByte(r.v)
                   /\ Goto("w", "skip")
                   /\ obs' = [obs EXCEPT
                         !.taken = LowByte(r.v),
                         !.nRegMsgs = IF LowByte(r.v) = S_ON_REGISTERED
                                      THEN @ + 1 ELSE @,
                         !.msgArgs = ints_at(buf, 8, NumArgs(LowByte(r.v)))]
    /\ UNCHANGED << buf, stk, iface, msg, clear, resp, frame, env >>

\* self._skip(4): mmap.seek past the end of the region raises ValueError
W_Skip ==
    /\ pc["w"] = "skip"
    /\ IF pos + 4 <= BufSize
       THEN pos' = pos + 4 /\ Goto("w", "dispatch")
       ELSE Die("w") /\ UNCHANGED pos
    /\ UNCHANGED << buf, stk, iface, msg, locals, env, obs >>

\* A variant of the dispatch table below without the S_ON_REGISTERED branch.
Callback_NoRegistered(mt) ==
    CASE mt = S_SHUTDOWN -> "on_shutdown"
      [] mt = S_ON_RUN_STEP -> "on_run_step"
      [] mt = S_ON_SIM_BEGIN -> "on_simulation_begin"
      [] mt = S_ON_SIM_STEP -> "on_simulation_step"
      [] mt = S_ON_SIM_END -> "on_simulation_end"
      [] mt = S_ON_CHECKPOINT_COUNT_CHANGED -> "on_checkpoint_count_changed"
      [] mt = S_ON_LAPS_COUNT_CHANGED -> "on_laps_count_changed"
      [] mt = S_ON_BRUTEFORCE_EVALUATE -> "on_bruteforce_evaluate"
      [] mt = S_ON_CUSTOM_COMMAND -> "on_custom_command"
      [] OTHER -> "none"

\* The client method each server message is dispatched to.
Callback(mt) ==
    CASE mt = S_SHUTDOWN -> "on_shutdown"
      [] mt = S_ON_RUN_STEP -> "on_run_step"
      [] mt = S_ON_SIM_BEGIN -> "on_simulation_begin"
      [] mt = S_ON_SIM_STEP -> "on_simulation_step"
      [] mt = S_ON_SIM_END -> "on_simulation_end"
      [] mt = S_ON_CHECKPOINT_COUNT_CHANGED -> "on_checkpoint_count_changed"
      [] mt = S_ON_LAPS_COUNT_CHANGED -> "on_laps_count_changed"
      [] mt = S_ON_BRUTEFORCE_EVALUATE -> "on_bruteforce_evaluate"
      [] mt = S_ON_REGISTERED -> "on_registered"
      [] mt = S_ON_CUSTOM_COMMAND -> "on_custom_command"
      [] OTHER -> "none"

\* A variant of the S_SHUTDOWN branch that calls on_shutdown without close().
W_Shutdown_NoClose ==
    /\ pc["w"] = "dispatch"
    /\ msgtype = S_SHUTDOWN
    /\ Goto("w", "sd_hook")
    /\ UNCHANGED << buf, pos, stk, iface, msg, locals, env, obs >>

\* if msgtype == S_SHUTDOWN: self.close(); self.client.on_shutdown(self)
W_Shutdown ==
    /\ pc["w"] = "dispatch"
    /\ Callback(msgtype) = "on_shutdown"
    /\ Call("w", "close_chk", << "sd_hook" >>)
    /\ UNCHANGED << buf, pos, iface, msg, locals, env, obs >>

W_ShutdownHook ==
    /\ pc["w"] = "sd_hook"
    /\ \E raises \in BOOLEAN :
          /\ IF raises THEN Die("w") ELSE Goto("w", "iter_end")
          /\ obs' = [obs EXCEPT !.cbs = Append(@, "on_shutdown"),
                                !.dispatched = TRUE, !.hookExc = @ \/ raises]
    /\ UNCHANGED << buf, pos, stk, iface, msg, locals, env >>

\* The branches that read int32 arguments and then call the hook.
W_ReadArgs ==
    /\ pc["w"] = "dispatch"
    /\ Callback(msgtype) \in {"on_run_step", "on_simulation_begin",
          "on_simulation_step", "on_simulation_end",
          "on_checkpoint_count_changed", "on_laps_count_changed"}
    /\ pos' = read_ints(buf, pos, NumArgs(msgtype)).p
    /\ Goto("w", "hook")
    /\ obs' = [obs EXCEPT !.hookArgs = read_ints(buf, pos, NumArgs(msgtype)).vals]
    /\ UNCHANGED << buf, stk, iface, msg, locals, env >>

\* S_ON_REGISTERED: self.registered = True, then the hook
W_OnRegistered ==
    /\ pc["w"] = "dispatch"
    /\ Callback(msgtype) = "on_registered"
    /\ registered' = TRUE
    /\ Goto("w", "hook")
    /\ UNCHANGED << buf, pos, mfile, running, client, thread, stk, msg,
                    locals, env, obs >>

\* S_ON_CUSTOM_COMMAND: _from, to, n_args, the command and n_args strings
W_CustomCommand ==
    /\ pc["w"] = "dispatch"
    /\ Callback(msgtype) = "on_custom_command"
    /\ LET r == read_ints(buf, pos, NumArgs(msgtype))
       IN  /\ pos' = read_strings_end(buf, r.p, 1 + r.vals[3])
           /\ obs' = [obs EXCEPT !.hookArgs = r.vals]
    /\ Goto("w", "hook")
    /\ UNCHANGED << buf, stk, iface, msg, locals, env >>

\* A variant of the fall-through below that acknowledges whatever was read,
\* as if _respond_to_call followed the if/elif chain.
W_Unknown_Responds ==
    /\ pc["w"] = "dispatch"
    /\ Callback(msgtype) = "none"
    /\ Goto("w", "respond")
    /\ UNCHANGED << buf, pos, stk, iface, msg, locals, env, obs >>

\* A message type with no branch: _process_server_message returns.
W_Unknown ==
    /\ pc["w"] = "dispatch"
    /\ Callback(msgtype) = "none"
    /\ Goto("w", "iter_end")
    /\ UNCHANGED << buf, pos, stk, iface, msg, locals, env, obs >>

\* What a hook may do: return, raise, or make one call on the interface
\* first (set_speed from on_run_step; register_custom_command from
\* on_registered, as examples/custom_command.py does).
HookOutcomes(cb) ==
    {"return", "raise"}
    \cup (IF cb = "on_run_step" THEN {"set_speed"} ELSE {})
    \cup (IF cb = "on_registered" THEN {"register_custom_command"} ELSE {})

SetSpeedMsg == write_double(Message(C_SET_GAME_SPEED))

\* register_custom_command('e')
RegisterCommandMsg ==
    write_vector(write_int32(Message(C_REGISTER_CUSTOM_COMMAND), 0),
                 << 101 >>, 1, BufSize).msg

W_Hook ==
    /\ pc["w"] = "hook"
    /\ \E o \in HookOutcomes(Callback(msgtype)) :
          /\ CASE o = "return" ->
                   Goto("w", "respond") /\ UNCHANGED << stk, msg, clear >>
              [] o = "raise" ->
                   Die("w") /\ UNCHANGED << stk, msg, clear >>
              [] o = "set_speed" ->
                   Request(SetSpeedMsg, TRUE, "respond")
              [] o = "register_custom_command" ->
                   Request(RegisterCommandMsg, FALSE, "rc_seek")
          /\ obs' = [obs EXCEPT !.dispatched = TRUE, !.hooked = TRUE,
                  !.hookExc = @ \/ o = "raise",
                  !.nOnReg = IF Callback(msgtype) = "on_registered"
                             THEN @ + 1 ELSE @]
    /\ UNCHANGED << buf, pos, iface, msgtype, resp, frame, env >>

\* register_custom_command after the wait: self.mfile.seek(4)
W_ErrSeek ==
    /\ pc["w"] = "rc_seek"
    /\ pos' = 4
    /\ Goto("w", "rc_read")
    /\ UNCHANGED << buf, stk, iface, msg, locals, env, obs >>

\* error_code = self._read_int32(); ServerException when it is
\* COMMAND_ALREADY_REGISTERED, else _clear_buffer and back to the hook.
W_ErrRead ==
    /\ pc["w"] = "rc_read"
    /\ LET r == read_int32_at(buf, pos)
       IN  /\ pos' = r.p
           /\ IF r.v = COMMAND_ALREADY_REGISTERED
              THEN /\ Die("w")
                   /\ obs' = [obs EXCEPT !.hookExc = TRUE, !.dupCmd = TRUE]
                   /\ frame' = [frame EXCEPT !.exc = "ServerException"]
                   /\ UNCHANGED stk
              ELSE /\ Call("w", "clr_seek", << "respond" >>)
                   /\ UNCHANGED << obs, frame >>
    /\ UNCHANGED << buf, iface, msg, clear, msgtype, resp, env >>

\* _respond_to_call(msgtype)
\* A variant of the acknowledgement that does not carry the tag.
ProcessedCall_NoTag(mt) == write_int32(Message(C_PROCESSED_CALL), 0)

ProcessedCall(mt) == write_int32(Message(C_PROCESSED_CALL), mt)

W_Respond ==
    /\ pc["w"] = "respond"
    /\ msg' = [msg EXCEPT !["w"] = ProcessedCall(msgtype)]
    /\ Call("w", "send_seek0", << "iter_end" >>)
    /\ UNCHANGED << buf, pos, iface, locals, env, obs >>

\* Nothing in _main_thread, _process_server_message or the signal handler
\* catches an exception: it unwinds the thread's frames and ends the thread.
Unwind(t) ==
    /\ pc[t] = "raise"
    /\ pc' = [pc EXCEPT ![t] = "dead"]
    /\ stk' = [stk EXCEPT ![t] = << >>]
    /\ msg' = [msg EXCEPT ![t] = None]
    /\ IF t = "w"
       THEN /\ clear' = TRUE
            /\ msgtype' = 0
            /\ resp' = [decision |-> CONTINUE, rewind_time |-> -1]
            /\ frame' = NoFrame
            /\ obs' = [obs EXCEPT !.acks = 0, !.ackData = << >>, !.cbs = << >>,
                                  !.bfRet = NoResult, !.reqs = << >>,
                                  !.msgArgs = << >>, !.hookArgs = << >>,
                                  !.hooked = FALSE, !.regErr = 0]
       ELSE UNCHANGED << locals, obs >>
    /\ UNCHANGED << buf, pos, iface, env >>

---------------------------------------------------------------------------
(* The calls a hook makes on the interface: the queries get_context_mode,  *)
(* get_checkpoint_state, get_simulation_state and get_event_buffer, and    *)
(* set_input_state, respawn and horn.                                      *)

Queries == {"get_context_mode", "get_checkpoint_state", "get_simulation_state",
            "get_event_buffer"}

\* the request a query sends: its type, no payload
QueryMsg(call) ==
    Message(CASE call = "get_context_mode" -> C_GET_CONTEXT_MODE
              [] call = "get_checkpoint_state" -> C_GET_CHECKPOINT_STATE
              [] call = "get_simulation_state" -> C_SIM_GET_STATE
              [] call = "get_event_buffer" -> C_SIM_GET_EVENT_BUFFER)

\* A variant of the wait of a query that clears the region at once.
QueryClear_AtOnce == TRUE

\* self._wait_for_server_response(False)
QueryClear == FALSE

\* A variant of the error test below that lets every response through.
Fails_Never(call, error_code) == FALSE

\* A variant of the error test below without the test of get_event_buffer.
Fails_OnlyPlayerInfo(call, error_code) ==
    call \in {"get_checkpoint_state", "get_simulation_state"}
       /\ error_code = NO_PLAYER_INFO

\* if error_code == NO_PLAYER_INFO / NO_EVENT_BUFFER: raise ServerException
Fails(call, error_code) ==
    \/ call \in {"get_checkpoint_state", "get_simulation_state"}
          /\ error_code = NO_PLAYER_INFO
    \/ call = "get_event_buffer" /\ error_code = NO_EVENT_BUFFER

\* A variant of the test of set_input_state that ignores the flag.
ClearsFirst_AnyFlag(mode, flag) == mode = MODE_SIMULATION

\* if self.get_context_mode() == MODE_SIMULATION and sim_clear_buffer:
ClearsFirst(mode, flag) == mode = MODE_SIMULATION /\ flag

\* __read_vector([4, 4]) at position p: the fields read and the position after
read_pairs(b, p) ==
    IF p + 4 > BufSize THEN [vals |-> << >>, p |-> p]
    ELSE LET c == read_int32_at(b, p)
         IN  read_ints(b, c.p, IF c.v > 0 THEN 2 * c.v ELSE 0)

\* _read_checkpoint_state: reserved, cp_states, cp_times
read_checkpoint_state(b, p) ==
    LET r == read_int32_at(b, p)
        st == read_vector(b, r.p, 4)
        tm == read_pairs(b, st.p)
    IN  [vals |-> st.vals \o tm.vals, p |-> tm.p]

\* What a query decodes after its error code: the values and the position
\* after. get_simulation_state tests the error code after its fixed fields.
Decode(call, b, p, error_code) ==
    CASE call = "get_checkpoint_state" ->
             [read_checkpoint_state(b, p) EXCEPT !.vals = << @ >>]
      [] call = "get_event_buffer" ->
             LET ids == read_ints(b, p, 11)
                 ev == read_pairs(b, ids.p)
             IN  [vals |-> << ids.vals[11], ev.vals >>, p |-> ev.p]
      [] call = "get_simulation_state" ->
             LET hd == read_ints(b, p, 3)
                 after == Min(hd.p + StateBuffersSize, BufSize)
                 evs == read_ints(b, after, 17)
             IN  IF Fails(call, error_code)
                 THEN [vals |-> << >>, p |-> evs.p]
                 ELSE [vals |-> << hd.vals, evs.vals,
                                   read_checkpoint_state(b, evs.p).vals >>,
                       p |-> read_checkpoint_state(b, evs.p).p]

\* the request set_input_state, respawn and horn end with
FinalMsg(outer) ==
    CASE outer = "set_input_state" -> SetInputStatesMsg([left |-> TRUE])
      [] outer = "respawn" -> write_int32(Message(C_RESPAWN), 0)
      [] outer = "horn" -> write_int32(Message(C_HORN), 0)

\* The calls the hooks of the model make: a query from on_simulation_step,
\* set_input_state, respawn or horn (with either flag) from on_run_step.
W_HookCall ==
    /\ pc["w"] = "hook"
    /\ \/ /\ Callback(msgtype) = "on_simulation_step"
          /\ \E q \in Queries :
                /\ frame' = [NoFrame EXCEPT !.call = q, !.held0 = obs.held]
                /\ msg' = [msg EXCEPT !["w"] = QueryMsg(q)]
                /\ Call("w", "send_seek0", << "wait_seek", "q_read", "respond" >>)
       \/ /\ Callback(msgtype) = "on_run_step"
          /\ \E o \in {"set_input_state", "respawn", "horn"}, f \in BOOLEAN :
                /\ frame' = [NoFrame EXCEPT !.outer = o, !.flag = f,
                                            !.call = "get_context_mode",
                                            !.held0 = obs.held]
                /\ msg' = [msg EXCEPT !["w"] = QueryMsg("get_context_mode")]
                /\ Call("w", "send_seek0", << "wait_seek", "q_read", "branch" >>)
    /\ clear' = QueryClear
    /\ obs' = [obs EXCEPT !.dispatched = TRUE, !.hooked = TRUE]
    /\ UNCHANGED << buf, pos, iface, msgtype, resp, env >>

\* A query after its wait: seek(8) and read the mode, or seek(4) and read
\* the error code (raising ServerException on it, get_simulation_state apart).
W_QueryRead ==
    /\ pc["w"] = "q_read"
    /\ LET r == read_int32_at(buf, IF frame.call = "get_context_mode"
                                   THEN 8 ELSE 4)
       IN  /\ pos' = r.p
           /\ IF frame.call = "get_context_mode"
              THEN /\ frame' = [frame EXCEPT !.mode = r.v, !.result = << r.v >>]
                   /\ Call("w", "clr_seek", << "q_ret" >>)
              ELSE IF frame.call # "get_simulation_state" /\ Fails(frame.call, r.v)
              THEN /\ frame' = [frame EXCEPT !.err = r.v,
                                             !.exc = "ServerException"]
                   /\ Die("w") /\ UNCHANGED stk
              ELSE /\ frame' = [frame EXCEPT !.err = r.v]
                   /\ Goto("w", "q_decode") /\ UNCHANGED stk
    /\ UNCHANGED << buf, iface, msg, clear, msgtype, resp, env, obs >>

\* The structured payload is read out of the region, then _clear_buffer.
W_QueryDecode ==
    /\ pc["w"] = "q_decode"
    /\ LET d == Decode(frame.call, buf, pos, frame.err)
       IN  /\ pos' = d.p
           /\ IF Fails(frame.call, frame.err)
              THEN /\ frame' = [frame EXCEPT !.exc = "ServerException"]
                   /\ Die("w") /\ UNCHANGED stk
              ELSE /\ frame' = [frame EXCEPT !.result = d.vals]
                   /\ Call("w", "clr_seek", << "q_ret" >>)
    /\ UNCHANGED << buf, iface, msg, clear, msgtype, resp, env, obs >>

\* return mode / data / state: the caller has the value; a hook keeps it.
W_QueryReturn ==
    /\ pc["w"] = "q_ret"
    /\ frame' = [frame EXCEPT !.returned = TRUE]
    /\ obs' = [obs EXCEPT !.held = IF frame.outer = "" THEN frame.result ELSE @]
    /\ Return("w")
    /\ UNCHANGED << buf, pos, iface, msg, clear, msgtype, resp, env >>

\* set_input_state, respawn, horn after get_context_mode returned:
\* clear_event_buffer starts with get_event_buffer, or the request is sent.
W_Branch ==
    /\ pc["w"] = "branch"
    /\ IF ClearsFirst(frame.mode, frame.flag)
       THEN /\ frame' = [frame EXCEPT !.call = "get_event_buffer",
                                      !.returned = FALSE, !.result = << >>]
            /\ msg' = [msg EXCEPT !["w"] = QueryMsg("get_event_buffer")]
            /\ clear' = QueryClear
            /\ Call("w", "send_seek0", << "wait_seek", "q_read", "set_events" >>)
       ELSE /\ Request(FinalMsg(frame.outer), TRUE, "respond")
            /\ frame' = [frame EXCEPT !.call = frame.outer]
    /\ UNCHANGED << buf, pos, iface, msgtype, resp, env, obs >>

\* event_buffer.clear(); self.set_event_buffer(event_buffer): clear() keeps
\* some or none of the events read, then the final request follows.
W_SetEvents ==
    /\ pc["w"] = "set_events"
    /\ \E n \in 0..Min(1, Len(frame.result[2]) \div 2) :
          LET kept == [i \in 1..n |-> << frame.result[2][2 * i - 1],
                                         frame.result[2][2 * i] >>]
          IN  /\ msg' = [msg EXCEPT !["w"] =
                           SetEventBufferMsg(frame.result[1], kept, BufSize)]
              /\ clear' = TRUE
              /\ Call("w", "send_seek0", << "wait_seek", "final" >>)
    /\ frame' = [frame EXCEPT !.call = "set_event_buffer"]
    /\ UNCHANGED << buf, pos, iface, msgtype, resp, env, obs >>

W_Final ==
    /\ pc["w"] = "final"
    /\ Request(FinalMsg(frame.outer), TRUE, "respond")
    /\ frame' = [frame EXCEPT !.call = frame.outer]
    /\ UNCHANGED << buf, pos, iface, msgtype, resp, env, obs >>

\* A hook that catches the ServerException of the call it made and then
\* returns, or goes on with set_speed.
W_Catch ==
    /\ pc["w"] = "raise"
    /\ frame.exc = "ServerException"
    /\ \/ /\ pc' = [pc EXCEPT !["w"] = "respond"]
          /\ stk' = [stk EXCEPT !["w"] = << >>]
          /\ frame' = [frame EXCEPT !.exc = "caught"]
          /\ UNCHANGED << msg, clear >>
       \/ /\ pc' = [pc EXCEPT !["w"] = "send_seek0"]
          /\ stk' = [stk EXCEPT !["w"] = << "wait_seek", "respond" >>]
          /\ msg' = [msg EXCEPT !["w"] = SetSpeedMsg]
          /\ clear' = TRUE
          /\ frame' = [frame EXCEPT !.exc = "caught", !.call = "set_speed"]
    /\ UNCHANGED << buf, pos, iface, msgtype, resp, env, obs >>

---------------------------------------------------------------------------
(* TMInterface._on_bruteforce_validate_call.                                *)

\* BFPhase(v) and BFTarget(v) raise ValueError outside the enumerations.
ValidPhase(v) == v \in {0, 1}
ValidTarget(v) == v \in 0..3

W_Bruteforce ==
    /\ pc["w"] = "dispatch"
    /\ Callback(msgtype) = "on_bruteforce_evaluate"
    /\ LET r == read_ints(buf, pos, NumArgs(msgtype))
       IN  IF ValidPhase(r.vals[1]) /\ ValidTarget(r.vals[2])
           THEN /\ pos' = r.p /\ Goto("w", "bf_hook")
                /\ obs' = [obs EXCEPT !.hookArgs = r.vals]
           ELSE /\ pos' = read_ints(buf, pos, IF ValidPhase(r.vals[1]) THEN 2 ELSE 1).p
                /\ Die("w")
                /\ UNCHANGED obs
    /\ UNCHANGED << buf, stk, iface, msg, locals, env >>

\* BFEvaluationResponse(): decision CONTINUE, rewind_time -1
BFEvaluationResponse == [decision |-> CONTINUE, rewind_time |-> -1]

\* What on_bruteforce_evaluate may return.
BFReturns ==
    {NoResult} \cup
    {[none |-> FALSE, decision |-> 3, rewind_time |-> 100]}

\* A variant of the default below that sends the callback's value as it is.
OrDefault_PassThrough(r) ==
    [decision |-> r.decision, rewind_time |-> r.rewind_time]

\* resp = callback(...); if not resp: resp = BFEvaluationResponse()
OrDefault(r) ==
    IF r.none THEN BFEvaluationResponse
    ELSE [decision |-> r.decision, rewind_time |-> r.rewind_time]

\* the C_PROCESSED_CALL of a bruteforce evaluation
BFProcessedCall(mt, r) ==
    write_int32(write_int32(write_int32(Message(C_PROCESSED_CALL), mt),
                            r.decision), r.rewind_time)

W_BFHook ==
    /\ pc["w"] = "bf_hook"
    /\ \/ \E r \in BFReturns :
             /\ resp' = OrDefault(r)
             /\ msg' = [msg EXCEPT !["w"] = BFProcessedCall(msgtype, resp')]
             /\ Call("w", "send_seek0", << "iter_end" >>)
             /\ obs' = [obs EXCEPT !.dispatched = TRUE, !.bfRet = r,
                                   !.hooked = TRUE]
       \/ /\ Die("w")
          /\ obs' = [obs EXCEPT !.dispatched = TRUE, !.hookExc = TRUE,
                                !.hooked = TRUE]
          /\ UNCHANGED << stk, msg, resp >>
    /\ UNCHANGED << buf, pos, iface, clear, msgtype, frame, env >>

---------------------------------------------------------------------------
(* TMInterface.register.                                                    *)

\* A variant of register that tests neither the client nor the flag.
register_Unchecked(c, r, t) ==
    [ret |-> TRUE, client |-> TRUE, registered |-> FALSE, thread |-> TRUE,
     start |-> ~t]

\* register on an interface whose client is stored (c), whose registered
\* flag is r and that has a thread (t): the return value, the fields after,
\* and whether a thread was started.
register(c, r, t) ==
    IF c \/ r
    THEN [ret |-> FALSE, client |-> c, registered |-> r, thread |-> t,
          start |-> FALSE]
    ELSE [ret |-> TRUE, client |-> TRUE, registered |-> FALSE, thread |-> TRUE,
          start |-> ~t]

\* A hook that calls iface.register with another client.
W_HookRegister ==
    /\ pc["w"] = "hook"
    /\ LET r == register(client, registered, thread)
       IN  /\ client' = r.client
           /\ registered' = r.registered
           /\ thread' = r.thread
           /\ frame' = [NoFrame EXCEPT !.call = "register", !.result = << r.ret >>]
    /\ Goto("w", "respond")
    /\ obs' = [obs EXCEPT !.dispatched = TRUE, !.hooked = TRUE]
    /\ UNCHANGED << buf, pos, mfile, running, stk, msg, clear, msgtype, resp,
                    env >>

\* An on_shutdown hook that tries to register again after the close():
\* iface.register(self).
W_ShutdownHookRegister ==
    /\ pc["w"] = "sd_hook"
    /\ LET r == register(client, registered, thread)
       IN  /\ client' = r.client
           /\ registered' = r.registered
           /\ thread' = r.thread
           /\ frame' = [NoFrame EXCEPT !.call = "register", !.result = << r.ret >>]
    /\ Goto("w", "iter_end")
    /\ obs' = [obs EXCEPT !.cbs = Append(@, "on_shutdown"),
                          !.dispatched = TRUE, !.hooked = TRUE]
    /\ UNCHANGED << buf, pos, mfile, running, stk, msg, clear, msgtype, resp,
                    env >>

---------------------------------------------------------------------------
(* The application's main thread: run_client and its signal handler.        *)

\* iface.register(client) of run_client: the first call stores the client and
\* starts the worker.
A_Register ==
    /\ pc["a"] = "start"
    /\ LET r == register(client, registered, thread)
       IN  /\ client' = r.client
           /\ registered' = r.registered
           /\ thread' = r.thread
           /\ pc' = [pc EXCEPT !["a"] = "main",
                               !["w"] = IF r.start THEN "loop" ELSE @]
           /\ obs' = [obs EXCEPT !.regRet = << r.ret >>]
    /\ UNCHANGED << buf, pos, mfile, running, stk, msg, locals, env >>

\* SIGINT or SIGBREAK: handler calls iface.close() on the main thread
A_Signal ==
    /\ pc["a"] \in {"start", "main"}
    /\ signals < MaxSignals
    /\ signals' = signals + 1
    /\ Call("a", "close_chk", << pc["a"] >>)
    /\ UNCHANGED << buf, pos, iface, msg, locals, hostWrites, pure, obs >>

\* while iface.running: time.sleep(0)
A_Return ==
    /\ pc["a"] = "main"
    /\ ~running
    /\ Goto("a", "returned")
    /\ UNCHANGED << buf, pos, stk, iface, msg, locals, env, obs >>

---------------------------------------------------------------------------
(* The host process on the other side of the region.                        *)

\* A server frame: the tag with the 0xFF marker, error code 0, the payload;
\* the host writes what fits in the region and zeroes the rest.
HostFrame(tag, payload) ==
    SubSeq(<< tag, 255, 0, 0 >> \o pack_i(0) \o payload, 1,
           Min(8 + Len(payload), BufSize))

HostFrames ==
    {HostFrame(t, << >>) : t \in {S_ON_REGISTERED, S_SHUTDOWN, S_ON_SIM_BEGIN}}
    \cup {HostFrame(t, pack_i(10)) :
            t \in {S_ON_RUN_STEP, S_ON_SIM_STEP, S_ON_SIM_END,
                   S_ON_LAPS_COUNT_CHANGED}}
    \cup {HostFrame(S_ON_CHECKPOINT_COUNT_CHANGED, pack_i(1) \o pack_i(2))}
    \cup {HostFrame(S_ON_CUSTOM_COMMAND,
                    pack_i(-1) \o pack_i(-1) \o pack_i(1) \o pack_i(0))}
    \cup {HostFrame(S_ON_BRUTEFORCE_EVALUATE,
                    pack_i(ph) \o pack_i(0) \o pack_i(10) \o pack_i(1)) :
            ph \in {1, 2}}

\* The region holds nothing the host still has to answer: it is clear, or
\* holds the client's acknowledgement of the previous notification.
HostIdle == buf[2] = 0 \/ (buf[2] = 255 /\ buf[1] = C_PROCESSED_CALL)

\* The host pushes a hook notification.
H_Push ==
    /\ mfile
    /\ HostIdle
    /\ hostWrites < MaxHostWrites
    /\ \E f \in HostFrames :
          buf' = [i \in 1..BufSize |-> IF i <= Len(f) THEN f[i] ELSE 0]
    /\ hostWrites' = hostWrites + 1
    /\ obs' = [obs EXCEPT !.earlyPush = @ \/ ~obs.regResp]
    /\ UNCHANGED << pos, iface, pc, stk, msg, locals, signals, pure >>

\* The requests the host answers with S_RESPONSE.
AwaitedRequests ==
    {C_REGISTER, C_DEREGISTER, C_SET_GAME_SPEED, C_REGISTER_CUSTOM_COMMAND}

\* The host answers the request it finds marked ready in the region.
H_Respond ==
    /\ mfile
    /\ buf[2] = 255
    /\ buf[1] \in AwaitedRequests
    /\ \E err \in IF buf[1] = C_REGISTER_CUSTOM_COMMAND
                  THEN {0, COMMAND_ALREADY_REGISTERED}
                  ELSE IF buf[1] = C_REGISTER
                  THEN {0, CLIENT_ALREADY_REGISTERED} ELSE {0} :
          LET f == << S_RESPONSE, 255, 0, 0 >> \o pack_i(err)
          IN  buf' = [i \in 1..BufSize |-> IF i <= Len(f) THEN f[i] ELSE 0]
    /\ obs' = [obs EXCEPT !.hostAck = @ \/ buf[1] = C_DEREGISTER]
    /\ UNCHANGED << pos, iface, pc, stk, msg, locals, env >>

\* What the host answers to the requests of the calls above: the error
\* code and the payload.
HostAnswers(request) ==
    CASE request = C_GET_CONTEXT_MODE ->
             {[err |-> 0, payload |-> pack_i(m)] : m \in {0, 1}}
      [] request = C_GET_CHECKPOINT_STATE ->
             {[err |-> e,
               payload |-> pack_i(0) \o pack_i(1) \o pack_i(1)
                             \o pack_i(1) \o pack_i(10) \o pack_i(0)] :
                e \in {0, NO_PLAYER_INFO}}
      [] request = C_SIM_GET_STATE ->
             {[err |-> e, payload |-> pack_i(1) \o pack_i(0) \o pack_i(0)] :
                e \in {0, NO_PLAYER_INFO}}
      [] request = C_SIM_GET_EVENT_BUFFER ->
             {[err |-> e,
               payload |-> WriteMinusOnes(None, 10).data \o pack_i(100)
                             \o pack_i(n) \o WriteTuples([i \in 1..n |-> << 5, 1 >>],
                                                         << 4, 4 >>, 1, 1)] :
                e \in {0, NO_EVENT_BUFFER}, n \in {1}}
      [] OTHER -> {[err |-> 0, payload |-> << >>]}

H_Answer ==
    /\ mfile
    /\ buf[2] = 255
    /\ buf[1] \in {C_GET_CONTEXT_MODE, C_GET_CHECKPOINT_STATE, C_SIM_GET_STATE,
                   C_SIM_GET_EVENT_BUFFER, C_SIM_SET_EVENT_BUFFER,
                   C_SET_INPUT_STATES, C_RESPAWN, C_HORN}
    /\ \E a \in HostAnswers(buf[1]) :
          LET f == << S_RESPONSE, 255, 0, 0 >> \o pack_i(a.err) \o a.payload
          IN  buf' = [i \in 1..BufSize |-> IF i <= Len(f) THEN f[i] ELSE 0]
    /\ UNCHANGED << pos, iface, pc, stk, msg, locals, env, obs >>

---------------------------------------------------------------------------

Next ==
    \/ \E t \in Threads : Send_Seek0(t)
    \/ \E t \in Threads : Send_Write(t)
    \/ \E t \in Threads : Send_Seek1(t)
    \/ \E t \in Threads : Send_Mark(t)
    \/ Wait_Seek
    \/ Wait_Read
    \/ Clear_Seek
    \/ Clear_Write
    \/ \E t \in Threads : Close_Check(t)
    \/ \E t \in Threads : Close_Callback(t)
    \/ \E t \in Threads : Close_Run(t)
    \/ W_Loop
    \/ W_Connect
    \/ W_CheckRegistered
    \/ W_SetRegistered
    \/ W_IterEnd
    \/ W_PollSeek
    \/ W_PollRead
    \/ W_Skip
    \/ W_Shutdown
    \/ W_ShutdownHook
    \/ W_ReadArgs
    \/ W_OnRegistered
    \/ W_CustomCommand
    \/ W_Unknown
    \/ W_Hook
    \/ W_ErrSeek
    \/ W_ErrRead
    \/ W_Respond
    \/ W_Bruteforce
    \/ W_BFHook
    \/ A_Register
    \/ A_Return
    \/ \E t \in Threads : Unwind(t)
    \/ H_Push
    \/ H_Respond

\* A run in which no signal is delivered.
Spec == Init /\ [][Next]_vars

\* A run in which SIGINT/SIGBREAK may be delivered at any moment.
NextSignal == Next \/ A_Signal

SpecSignal == Init /\ [][NextSignal]_vars

\* The steps of _send_message, close and exception unwinding taken by thread t.
ThreadStep(t) ==
    \/ Send_Seek0(t) \/ Send_Write(t) \/ Send_Seek1(t) \/ Send_Mark(t)
    \/ Close_Check(t) \/ Close_Callback(t) \/ Close_Run(t) \/ Unwind(t)

\* The worker leaving the dispatch of on_custom_command or
\* on_bruteforce_evaluate: it is enabled exactly when W_CustomCommand or
\* W_Bruteforce is (both are total on their tags), and every step of either
\* is a step of it.
W_Dispatch ==
    /\ pc["w"] = "dispatch"
    /\ Callback(msgtype) \in {"on_custom_command", "on_bruteforce_evaluate"}
    /\ \E l \in {"hook", "bf_hook", "raise"} : pc' = [pc EXCEPT !["w"] = l]
    /\ pos' \in 0..BufSize
    /\ obs' \in {obs, [obs EXCEPT !.hookArgs = ints_at(buf, pos, NumArgs(msgtype))]}
    /\ UNCHANGED << buf, stk, iface, msg, locals, env >>

\* Any step of the worker thread.
WorkerStep ==
    \/ ThreadStep("w")
    \/ Wait_Seek \/ Wait_Read \/ Clear_Seek \/ Clear_Write
    \/ W_Loop \/ W_Connect \/ W_CheckRegistered \/ W_SetRegistered \/ W_IterEnd
    \/ W_PollSeek \/ W_PollRead \/ W_Skip \/ W_Shutdown \/ W_ShutdownHook
    \/ W_ReadArgs \/ W_OnRegistered \/ W_Unknown \/ W_Hook \/ W_ErrSeek
    \/ W_ErrRead \/ W_Respond \/ W_BFHook \/ W_Dispatch

\* Any step of the thread that called run_client.
AppStep == ThreadStep("a") \/ A_Register \/ A_Return

\* The host gives up on a registered client that has not acknowledged the notification
\* in the region within the response timeout: it deregisters the client on
\* its own and leaves S_SHUTDOWN in the region, the one message by which a
\* client learns of it.
H_Deregister ==
    /\ mfile
    /\ registered
    /\ ~obs.hostDereg
    /\ buf[2] = 255
    /\ buf[1] \in {S_ON_REGISTERED, S_ON_RUN_STEP, S_ON_SIM_BEGIN, S_ON_SIM_STEP,
                   S_ON_SIM_END, S_ON_CHECKPOINT_COUNT_CHANGED,
                   S_ON_LAPS_COUNT_CHANGED, S_ON_CUSTOM_COMMAND,
                   S_ON_BRUTEFORCE_EVALUATE}
    /\ LET f == HostFrame(S_SHUTDOWN, << >>)
       IN  buf' = [i \in 1..BufSize |-> IF i <= Len(f) THEN f[i] ELSE 0]
    /\ obs' = [obs EXCEPT !.hostDereg = TRUE]
    /\ UNCHANGED << pos, iface, pc, stk, msg, locals, env >>

NextTimeout == Next \/ H_Deregister

\* A run without signals in which the host may time out, and both Python
\* threads keep being scheduled.
SpecTimeout ==
    Init /\ [][NextTimeout]_vars /\ WF_vars(WorkerStep) /\ WF_vars(AppStep)

\* Frames the host pushes in a run checked for progress.
MaxLiveWrites == 1

NextLive == NextSignal /\ hostWrites' <= MaxLiveWrites

\* A run with signals in which both Python threads keep being scheduled
\* (each loop yields with time.sleep(0)); nothing is assumed of the host.
SpecLive ==
    Init /\ [][NextLive]_vars /\ WF_vars(WorkerStep) /\ WF_vars(AppStep)

\* A run (without signals) in which the hooks also make calls on the interface.
NextCalls ==
    \/ Next
    \/ W_HookCall
    \/ W_QueryRead
    \/ W_QueryDecode
    \/ W_QueryReturn
    \/ W_Branch
    \/ W_SetEvents
    \/ W_Final
    \/ W_Catch
    \/ W_HookRegister
    \/ W_ShutdownHookRegister
    \/ H_Answer

SpecCalls == Init /\ [][NextCalls]_vars

---------------------------------------------------------------------------
(* _write_vector on its own: one call on each drawn message and vector.     *)

VecInputs ==
    [msg : {[Message(C_REGISTER_CUSTOM_COMMAND) EXCEPT !.data = Zeros(n)] :
              n \in 0..MaxData},
     vector : {[i \in 1..n |-> i] : n \in 0..MaxVec},
     item_size : {1, 4},
     buffer_size : 8..(MaxData + 16)]

InitVec ==
    /\ InitIface
    /\ vin \in VecInputs
    /\ vout = NoVec

V_WriteVector ==
    /\ ~vout.done
    /\ LET r == write_vector(vin.msg, vin.vector, vin.item_size, vin.buffer_size)
       IN  vout' = [msg |-> r.msg, ret |-> r.ret, done |-> TRUE]
    /\ UNCHANGED << buf, pos, iface, pc, stk, msg, locals, hostWrites, signals,
                    obs, vin >>

NextVec == V_WriteVector

SpecVec == InitVec /\ [][NextVec]_vars

---------------------------------------------------------------------------
(* SimStateData: the accessors gated by the flags.                          *)

\* tminterface.constants (imported at structs.py line 12)
SIM_HAS_TIMERS == 1
SIM_HAS_DYNA == 2
SIM_HAS_PLAYER_INFO == 128

\* (flags & bit) == 0, for a bit that is a power of two
BitUnset(flags, bit) == (flags \div bit) % 2 = 0

\* A Python value: its type and what it holds (False is the bool holding 0).
Py(type, v) == [type |-> type, v |-> v]

\* The fields of a SimStateData the accessors look at.
SimStates ==
    [flags : {0, 1, 2, 3, 128, 129, 130, 131},
     timers : {<< 5, 10 >>},
     position : {<< 1, 2, 3 >>},
     linear_speed : {<< 4, 5, 6 >>},
     rotation : {<< << 1, 0, 0 >>, << 0, 1, 0 >>, << 0, 0, 1 >> >>},
     display_speed : {7},
     race_time : {20}]

\* The property getters of SimStateData; yaw_pitch_roll of a populated state
\* is left as the expression over the rotation it is computed from.
SimStateData_get(st, name) ==
    CASE name = "time" ->
           IF BitUnset(st.flags, SIM_HAS_TIMERS) THEN Py("int", 0)
           ELSE Py("int", st.timers[2])
      [] name = "position" ->
           IF BitUnset(st.flags, SIM_HAS_DYNA) THEN Py("list", << 0, 0, 0 >>)
           ELSE Py("list", st.position)
      [] name = "velocity" ->
           IF BitUnset(st.flags, SIM_HAS_DYNA) THEN Py("list", << 0, 0, 0 >>)
           ELSE Py("list", st.linear_speed)
      [] name = "display_speed" ->
           IF BitUnset(st.flags, SIM_HAS_PLAYER_INFO) THEN Py("int", 0)
           ELSE Py("int", st.display_speed)
      [] name = "rotation_matrix" ->
           IF BitUnset(st.flags, SIM_HAS_DYNA)
           THEN Py("list", << << 0, 0, 0 >>, << 0, 0, 0 >>, << 0, 0, 0 >> >>)
           ELSE Py("ndarray", st.rotation)
      [] name = "yaw_pitch_roll" ->
           IF BitUnset(st.flags, SIM_HAS_DYNA) THEN Py("list", << 0, 0, 0 >>)
           ELSE Py("list", << "quat_to_ypw", "mat3_to_quat", st.rotation >>)
      [] name = "race_time" ->
           IF BitUnset(st.flags, SIM_HAS_PLAYER_INFO) THEN Py("bool", 0)
           ELSE Py("int", st.race_time)

\* The property setters of SimStateData: the state afterwards and the
\* exception raised, if any (the velocity setter assigns the name `pos`,
\* which it does not define).
SimStateData_set(st, name, value) ==
    IF BitUnset(st.flags, SIM_HAS_DYNA) THEN [state |-> st, exc |-> ""]
    ELSE CASE name = "position" ->
                [state |-> [st EXCEPT !.position = value], exc |-> ""]
           [] name = "velocity" -> [state |-> st, exc |-> "NameError"]
           [] name = "rotation_matrix" ->
                [state |-> [st EXCEPT !.rotation = value], exc |-> ""]

Getters == {"time", "position", "velocity", "display_speed", "rotation_matrix",
            "yaw_pitch_roll", "race_time"}

Setters == {"position", "velocity", "rotation_matrix"}

---------------------------------------------------------------------------
(* get_simulation_state and rewind_to_state on a whole simulation state.   *)

\* TIMERS_SIZE, DYNA_SIZE, SCENE_MOBIL_SIZE, SIMULATION_WHEELS_SIZE,
\* PLUG_SOLID_SIZE, CMD_BUFFER_CORE_SIZE, PLAYER_INFO_SIZE, INPUT_STATE_SIZE
StateSizes == << 212, 1424, 2168, 3056, 68, 264, 952, 120 >>

\* The state get_simulation_state decodes from region b after seek(4) and the
\* error code: the fields in the order they are read. uint32 fields are
\* kept as hi * 65536 + lo.
read_sim_state(b) ==
    LET at(p) == Min(p, Len(b))
        raw(p, n) == SubSeq(b, at(p) + 1, at(p + n))
        i32(p) == IF Len(raw(p, 4)) = 4 THEN unpack_i(raw(p, 4)) ELSE 0
        u32(p) == IF Len(raw(p, 4)) = 4 THEN struct_unpack("I", raw(p, 4))
                  ELSE [hi |-> 0, lo |-> 0]
        p0 == 20
        start(i) == p0 + Sum(SubSeq(StateSizes, 1, i - 1))
        p1 == p0 + Sum(StateSizes)
        p2 == p1 + 64
        states == read_vector(b, at(p2 + 8), 4)
        times == IF states.p + 4 > Len(b) THEN << >>
                 ELSE read_items(b, read_int(b, states.p, 4).p,
                                 2 * read_int(b, states.p, 4).v, 4).vals
    IN  [version |-> i32(8), context_mode |-> i32(12), flags |-> u32(16),
         buffers |-> [i \in 1..8 |-> raw(start(i), StateSizes[i])],
         events |-> [i \in 1..8 |-> [time |-> u32(p1 + 8 * (i - 1)),
                                     data |-> i32(p1 + 8 * (i - 1) + 4)]],
         num_respawns |-> u32(p2),
         cp_states |-> states.vals,
         cp_times |-> [i \in 1..(Len(times) \div 2) |->
                          << times[2 * i - 1], times[2 * i] >>]]

\* rewind_to_state(state): the message built, or struct.error raised by one
\* of the writes.
RewindMsg(state, buffer_size) ==
    LET flags == struct_pack("i", state.flags)
        ev(i) == struct_pack("I", state.events[i].time).bytes
                    \o pack_i(state.events[i].data)
        fixed == pack_i(state.version) \o pack_i(state.context_mode)
                    \o flags.bytes
                    \o state.buffers[1] \o state.buffers[2] \o state.buffers[3]
                    \o state.buffers[4] \o state.buffers[5] \o state.buffers[6]
                    \o state.buffers[7] \o state.buffers[8]
                    \o ev(1) \o ev(2) \o ev(3) \o ev(4)
                    \o ev(5) \o ev(6) \o ev(7) \o ev(8)
                    \o struct_pack("I", state.num_respawns).bytes
        m0 == [Message(C_SIM_REWIND_TO_STATE) EXCEPT !.data = fixed \o pack_i(0)]
        v1 == write_vector(m0, state.cp_states, 4, buffer_size)
    IN  [raised |-> flags.raised,
         msg |-> IF flags.raised THEN None
                 ELSE IF v1.ret
                 THEN write_vector_list(v1.msg, state.cp_times, << 4, 4 >>,
                                        buffer_size).msg
                 ELSE v1.msg]

---------------------------------------------------------------------------
(* The request builders and the vector reader on their own: one call on    *)
(* each drawn argument list, on a region of buffer_size bytes.             *)

\* set_input_state's keyword arguments: any subset of the six keywords.
Kwargs ==
    {b @@ a : b \in UNION {[S -> BOOLEAN] :
                              S \in SUBSET {"left", "right", "accelerate", "brake"}},
              a \in UNION {[S -> {-3, MaxData}] : S \in SUBSET {"steer", "gas"}}}

NoArgs == [op |-> "", buffer_size |-> 0, message |-> << >>, severity |-> "log",
           kwargs |-> << >>, events |-> << >>, region |-> << >>, item_size |-> 1,
           args |-> << >>]

PureInputs ==
    {[NoArgs EXCEPT !.op = "log", !.message = [i \in 1..n |-> 97],
                    !.severity = sv, !.buffer_size = bs] :
        n \in 0..MaxData, sv \in {"log", "error"}, bs \in 12..(MaxData + 16)}
    \cup {[NoArgs EXCEPT !.op = "set_input_state", !.kwargs = kw,
                         !.buffer_size = bs] :
             kw \in Kwargs, bs \in {4 * MaxData, 4 * MaxData + 8}}
    \cup {[NoArgs EXCEPT !.op = "set_event_buffer",
                         !.events = [i \in 1..n |-> << i, 10 * i >>],
                         !.buffer_size = bs] :
             n \in 0..MaxVec, bs \in {8 * MaxData + 8 * k : k \in 0..3}}
    \cup {[NoArgs EXCEPT !.op = "read_vector", !.item_size = sz,
                         !.region = SubSeq(pack_i(n) \o [i \in 1..(4 * MaxVec) |-> i],
                                           1, len),
                         !.buffer_size = len] :
             n \in 0..(MaxVec + 1), sz \in {1, 4}, len \in 0..(MaxData + 4)}
    \cup {[NoArgs EXCEPT !.op = "write_int", !.item_size = 1, !.args = << w >>] :
             w \in {[hi |-> 0, lo |-> n] : n \in {0, 1, 127, 128, 255}}}
    \cup {[NoArgs EXCEPT !.op = "write_int", !.item_size = 2, !.args = << w >>] :
             w \in {[hi |-> 0, lo |-> n] : n \in {0, 1, 32767, 32768, 65535}}
                     \cup {[hi |-> -1, lo |-> n] : n \in {32768, 65534, 65535}}}
    \cup {[NoArgs EXCEPT !.op = "write_int", !.item_size = 4, !.args = << w >>] :
             w \in {[hi |-> h, lo |-> n] : h \in {-32768, -1, 0, 1, 32767},
                                            n \in {0, 1, 65535}}
                     \cup {[hi |-> 65535, lo |-> 65535]}}
    \cup {LET payload == pack_i(1) \o pack_i(0) \o fl
                             \o [i \in 1..Sum(StateSizes) |-> i % 251]
                             \o [i \in 1..64 |-> 100 + i]
                             \o pack_i(2) \o pack_i(rs)
                             \o pack_i(ns) \o [i \in 1..(4 * ns) |-> i % 2]
                             \o pack_i(nt) \o [i \in 1..(8 * nt) |-> 2 * i]
           IN  [NoArgs EXCEPT !.op = "rewind", !.args = << Len(payload) >>,
                              !.region = << S_RESPONSE, 255, 0, 0 >> \o pack_i(0)
                                            \o payload \o Zeros(pad),
                              !.buffer_size = 8 + Len(payload) + pad] :
             fl \in {<< 7, 0, 0, 0 >>, << 0, 0, 0, 128 >>}, rs \in {0, 1},
             ns \in 0..MaxVec, nt \in 0..1, pad \in {0, 4}}
    \cup {[NoArgs EXCEPT !.op = "accessors", !.args = << st >>] : st \in SimStates}
    \cup {[NoArgs EXCEPT !.op = "analog", !.args = << sg * (b - k) >>] :
             sg \in {-1, 1}, b \in {0, 65536, 6553600},
             k \in (-8 * MaxData)..(8 * MaxData)}

---------------------------------------------------------------------------
(* CommandList: parsing times, time ranges and commands. A str is the       *)
(* sequence of its characters.                                              *)

DigitVal == [c \in {"0", "1", "2", "3", "4", "5", "6", "7", "8", "9"} |->
               CASE c = "0" -> 0 [] c = "1" -> 1 [] c = "2" -> 2 [] c = "3" -> 3
                 [] c = "4" -> 4 [] c = "5" -> 5 [] c = "6" -> 6 [] c = "7" -> 7
                 [] c = "8" -> 8 [] c = "9" -> 9]

RECURSIVE DecVal(_)
DecVal(str) ==
    IF str = << >> THEN 0
    ELSE 10 * DecVal(SubSeq(str, 1, Len(str) - 1)) + DigitVal[str[Len(str)]]

\* int(str) on a str of digits, signs and other characters (no whitespace,
\* no underscore): the value, or ValueError.
int(str) ==
    LET signed == str # << >> /\ str[1] \in {"-", "+"}
        digits == IF signed THEN Tail(str) ELSE str
    IN  IF digits # << >> /\ \A i \in 1..Len(digits) : digits[i] \in DOMAIN DigitVal
        THEN [ValueError |-> FALSE,
              v |-> IF signed /\ str[1] = "-" THEN -DecVal(digits) ELSE DecVal(digits)]
        ELSE [ValueError |-> TRUE, v |-> 0]

\* str.split(sep, maxsplit)
RECURSIVE split(_, _, _)
split(str, sep, maxsplit) ==
    LET at == {i \in 1..Len(str) : str[i] = sep}
    IN  IF maxsplit = 0 \/ at = {} THEN << str >>
        ELSE LET k == CHOOSE i \in at : \A j \in at : i <= j
             IN  << SubSeq(str, 1, k - 1) >>
                 \o split(SubSeq(str, k + 1, Len(str)), sep, maxsplit - 1)

\* CommandList._parse_seconds
parse_seconds(time_str) ==
    LET tokens == split(time_str, ".", 1)
    IN  IF Len(tokens) < 2 THEN -1
        ELSE IF tokens[1] = << >> \/ tokens[2] = << >> THEN -1
        ELSE LET cut == SubSeq(tokens[2], 1, Min(2, Len(tokens[2])))
                 padded == IF Len(cut) < 2 THEN cut \o << "0" >> ELSE cut
                 seconds == int(tokens[1])
                 milliseconds == int(padded)
             IN  IF seconds.ValueError \/ milliseconds.ValueError THEN -1
                 ELSE seconds.v * 1000 + milliseconds.v * 10

\* CommandList.parse_time
parse_time(time_str) ==
    IF \A i \in 1..Len(time_str) : time_str[i] # "."
    THEN IF int(time_str).ValueError THEN -1 ELSE int(time_str).v
    ELSE LET tokens == split(time_str, ":", 2)
             tokens_len == Len(tokens)
         IN  IF tokens_len = 1 THEN parse_seconds(time_str)
             ELSE IF tokens_len = 2
             THEN IF int(tokens[1]).ValueError THEN -1
                  ELSE LET seconds == parse_seconds(tokens[2])
                       IN  IF seconds = -1 THEN -1
                           ELSE int(tokens[1]).v * 60000 + seconds
             ELSE IF int(tokens[1]).ValueError \/ int(tokens[2]).ValueError THEN -1
                  ELSE LET seconds == parse_seconds(tokens[3])
                       IN  IF seconds = -1 THEN -1
                           ELSE int(tokens[1]).v * 3600000
                                + int(tokens[2]).v * 60000 + seconds

\* A variant of parse_time_range that never swaps the two ends.
parse_time_range_NoSwap(range_str) ==
    LET timestamps == split(range_str, "-", 1)
    IN  IF Len(timestamps) = 1 THEN << parse_time(timestamps[1]), -1 >>
        ELSE << parse_time(timestamps[1]), parse_time(timestamps[2]) >>

\* CommandList.parse_time_range
parse_time_range(range_str) ==
    LET timestamps == split(range_str, "-", 1)
    IN  IF Len(timestamps) = 1 THEN << parse_time(timestamps[1]), -1 >>
        ELSE LET from == parse_time(timestamps[1])
                 to == parse_time(timestamps[2])
             IN  IF from > to THEN << to, from >> ELSE << from, to >>

BOT_COMMANDS ==
    {<< "p", "r", "e", "s", "s" >>, << "r", "e", "l" >>,
     << "s", "t", "e", "e", "r" >>, << "g", "a", "s" >>}

BOT_INPUT_TYPES ==
    << << "u", "p" >>, << "d", "o", "w", "n" >>, << "l", "e", "f", "t" >>,
       << "r", "i", "g", "h", "t" >>, << "e", "n", "t", "e", "r" >>,
       << "d", "e", "l", "e", "t", "e" >>, << "h", "o", "r", "n" >>,
       << "s", "t", "e", "e", "r" >>, << "g", "a", "s" >> >>

\* InputType.from_str on a lower-case str: the value of the InputType
\* (UNKNOWN is 9).
from_str(str) ==
    IF \E i \in 1..Len(BOT_INPUT_TYPES) : BOT_INPUT_TYPES[i] = str
    THEN (CHOOSE i \in 1..Len(BOT_INPUT_TYPES) : BOT_INPUT_TYPES[i] = str) - 1
    ELSE 9

Command(args) == [cls |-> "Command", args |-> args]

InputCommand(timestamp, input_type, state) ==
    [cls |-> "InputCommand", timestamp |-> timestamp, input_type |-> input_type,
     state |-> state]

TimedCommand(args, timestamp, is_ending) ==
    [cls |-> "TimedCommand", args |-> args, timestamp |-> timestamp,
     is_ending |-> is_ending]

NoCommand == [cls |-> "None"]

\* A variant of to_input_command that does not look at is_ending.
to_input_command_NoEnding(self) ==
    IF Len(self.args) < 2 \/ self.args[1] \notin BOT_COMMANDS THEN NoCommand
    ELSE IF self.args[1] \in {<< "p", "r", "e", "s", "s" >>, << "r", "e", "l" >>}
    THEN InputCommand(self.timestamp, from_str(self.args[2]),
                      IF self.args[1] = << "p", "r", "e", "s", "s" >> THEN 1 ELSE 0)
    ELSE IF int(self.args[2]).ValueError THEN NoCommand
         ELSE InputCommand(self.timestamp, from_str(self.args[1]),
                           int(self.args[2]).v)

\* TimedCommand.to_input_command (on lower-case arguments, which lower()
\* leaves as they are).
to_input_command(self) ==
    IF Len(self.args) < 2 \/ self.args[1] \notin BOT_COMMANDS THEN NoCommand
    ELSE IF self.args[1] \in {<< "p", "r", "e", "s", "s" >>, << "r", "e", "l" >>}
    THEN InputCommand(self.timestamp, from_str(self.args[2]),
                      IF self.args[1] = << "p", "r", "e", "s", "s" >>
                         /\ ~self.is_ending
                      THEN 1 ELSE 0)
    ELSE IF self.is_ending
         THEN InputCommand(self.timestamp, from_str(self.args[1]), 0)
         ELSE IF int(self.args[2]).ValueError THEN NoCommand
              ELSE InputCommand(self.timestamp, from_str(self.args[1]),
                                int(self.args[2]).v)

\* CommandList.add_command of a TimedCommand to the list cl.
add_command(cl, command) ==
    LET input_command == to_input_command(command)
    IN  [cl EXCEPT !.timed_commands =
            Append(@, IF input_command # NoCommand THEN input_command ELSE command)]

\* CommandList._parse_command, from the arguments the command was split into.
parse_command(cl, args) ==
    IF args = << >> THEN cl
    ELSE LET range == parse_time_range(args[1])
         IN  IF range[1] # -1
             THEN LET first == add_command(cl, TimedCommand(Tail(args), range[1], FALSE))
                  IN  IF range[2] # -1
                      THEN add_command(first, TimedCommand(Tail(args), range[2], TRUE))
                      ELSE first
             ELSE [cl EXCEPT !.commands = Append(@, Command(args))]

\* The command lines parsed: a first token and the arguments after it.
CommandLines ==
    {<< first >> \o rest :
        first \in {<< "1", "-", "2" >>, << "2", "-", "1" >>, << "5" >>, << "x" >>,
                   << "1", "-", "x" >>, << "2", ".", "5", "-", "1" >>,
                   << "2", "-", "2" >>},
        rest \in {<< << "p", "r", "e", "s", "s" >>, << "u", "p" >> >>,
                  << << "r", "e", "l" >>, << "d", "o", "w", "n" >> >>,
                  << << "p", "r", "e", "s", "s" >>, << "j", "u", "m", "p" >> >>,
                  << << "s", "t", "e", "e", "r" >>, << "1", "2" >> >>,
                  << << "g", "a", "s" >>, << "-", "5" >> >>,
                  << << "g", "a", "s" >>, << "x" >> >>,
                  << << "p", "r", "e", "s", "s" >> >>,
                  << << "s", "e", "t" >>, << "s", "p", "e", "e", "d" >> >>,
                  << >>}}

\* The longest time string drawn from TimeChars.
MaxStr == 4

TimeChars == {"1", "2", "-", ".", ":", "x"}

\* The time strings parsed: every short one, and some longer formatted ones.
TimeStrs ==
    UNION {[1..n -> TimeChars] : n \in 0..MaxStr}
    \cup {<< "1", ":", "2", ".", "5" >>, << "1", ":", "1", ":", "1", ".", "1" >>,
          << "1", ".", "2", "5", "-", "2", ".", "5" >>,
          << "2", ":", "1", ".", "5", "-", "1", ":", "2", ".", "5" >>,
          << "2", ".", "1", "-", "1", "2" >>, << "2", ".", "1", "2", "9" >>}

\* The arguments of the CommandList calls.
CommandInputs ==
    {[NoArgs EXCEPT !.op = "parse_time_range", !.args = << str >>] :
        str \in TimeStrs}
    \cup {[NoArgs EXCEPT !.op = "parse_command", !.args = line] :
             line \in CommandLines}

NoOut == [done |-> FALSE, msg |-> None, region |-> << >>, raised |-> FALSE,
          vals |-> << >>, excs |-> 0]

InitPure ==
    /\ InitIface
    /\ vin \in PureInputs \cup CommandInputs
    /\ vout = NoOut

\* what a call that builds m and hands it to _send_message leaves behind,
\* on a region no byte of which was zero or 0xFF before
Sent(m) ==
    LET r == SendInto([i \in 1..vin.buffer_size |-> 170], m)
    IN  [NoOut EXCEPT !.done = TRUE, !.msg = m, !.region = r.region,
                      !.raised = r.raised]

P_Log ==
    /\ vin.op = "log" /\ ~vout.done
    /\ vout' = Sent(LogMsg(vin.message, vin.severity, vin.buffer_size))
    /\ UNCHANGED << buf, pos, iface, pc, stk, msg, locals, hostWrites, signals,
                    obs, vin >>

P_SetInputState ==
    /\ vin.op = "set_input_state" /\ ~vout.done
    /\ vout' = Sent(SetInputStatesMsg(vin.kwargs))
    /\ UNCHANGED << buf, pos, iface, pc, stk, msg, locals, hostWrites, signals,
                    obs, vin >>

P_SetEventBuffer ==
    /\ vin.op = "set_event_buffer" /\ ~vout.done
    /\ vout' = Sent(SetEventBufferMsg(100, vin.events, vin.buffer_size))
    /\ UNCHANGED << buf, pos, iface, pc, stk, msg, locals, hostWrites, signals,
                    obs, vin >>

P_ReadVector ==
    /\ vin.op = "read_vector" /\ ~vout.done
    /\ LET r == read_vector(vin.region, 0, vin.item_size)
       IN  vout' = [NoOut EXCEPT !.done = TRUE, !.vals = r.vals,
                                 !.excs = r.excs, !.raised = r.raised]
    /\ UNCHANGED << buf, pos, iface, pc, stk, msg, locals, hostWrites, signals,
                    obs, vin >>

\* msg.write_int(n, size), then the bytes read back at offset 0 with
\* _read_int(size), or with _read_uint32.
P_WriteInt ==
    /\ vin.op = "write_int" /\ ~vout.done
    /\ LET w == write_int_wide(vin.args[1], vin.item_size)
           fmt == CASE vin.item_size = 1 -> "B"
                    [] vin.item_size = 2 -> "H"
                    [] vin.item_size = 4 -> "i"
       IN  vout' = [NoOut EXCEPT
                      !.done = TRUE, !.raised = w.raised, !.region = w.bytes,
                      !.vals = IF w.raised THEN << >>
                               ELSE << struct_unpack(fmt, w.bytes) >>
                                    \o IF vin.item_size = 4
                                       THEN << struct_unpack("I", w.bytes) >>
                                       ELSE << >>]
    /\ UNCHANGED << buf, pos, iface, pc, stk, msg, locals, hostWrites, signals,
                    obs, vin >>

\* data_to_analog_value(analog_value_to_data(v))
P_Analog ==
    /\ vin.op = "analog" /\ ~vout.done
    /\ vout' = [NoOut EXCEPT
                  !.done = TRUE,
                  !.vals = << analog_value_to_data(vin.args[1]),
                              data_to_analog_value(
                                  analog_value_to_data(vin.args[1])) >>]
    /\ UNCHANGED << buf, pos, iface, pc, stk, msg, locals, hostWrites, signals,
                    obs, vin >>

\* state = get_simulation_state() on the drawn response, then
\* rewind_to_state(state)
P_Rewind ==
    /\ vin.op = "rewind" /\ ~vout.done
    /\ LET r == RewindMsg(read_sim_state(vin.region), vin.buffer_size)
       IN  vout' = [NoOut EXCEPT !.done = TRUE, !.raised = r.raised,
                                 !.msg = r.msg]
    /\ UNCHANGED << buf, pos, iface, pc, stk, msg, locals, hostWrites, signals,
                    obs, vin >>

\* Every getter read, and every setter applied (each to the state as drawn).
P_Accessors ==
    /\ vin.op = "accessors" /\ ~vout.done
    /\ LET st == vin.args[1]
           new == << 9, 9, 9 >>
       IN  vout' = [NoOut EXCEPT
                      !.done = TRUE,
                      !.vals = [get |-> [n \in Getters |-> SimStateData_get(st, n)],
                                set |-> [n \in Setters |->
                                           SimStateData_set(st, n,
                                              IF n = "rotation_matrix"
                                              THEN << new, new, new >> ELSE new)]]]
    /\ UNCHANGED << buf, pos, iface, pc, stk, msg, locals, hostWrites, signals,
                    obs, vin >>

P_ParseTimeRange ==
    /\ vin.op = "parse_time_range" /\ ~vout.done
    /\ vout' = [NoOut EXCEPT !.done = TRUE, !.vals = parse_time_range(vin.args[1])]
    /\ UNCHANGED << buf, pos, iface, pc, stk, msg, locals, hostWrites, signals,
                    obs, vin >>

\* _parse_command on an empty CommandList
P_ParseCommand ==
    /\ vin.op = "parse_command" /\ ~vout.done
    /\ vout' = [NoOut EXCEPT
                  !.done = TRUE,
                  !.vals = parse_command([commands |-> << >>,
                                          timed_commands |-> << >>], vin.args)]
    /\ UNCHANGED << buf, pos, iface, pc, stk, msg, locals, hostWrites, signals,
                    obs, vin >>

NextPure ==
    \/ P_Log
    \/ P_SetInputState
    \/ P_SetEventBuffer
    \/ P_ReadVector
    \/ P_WriteInt
    \/ P_Analog
    \/ P_Rewind
    \/ P_Accessors
    \/ P_ParseTimeRange
    \/ P_ParseCommand

SpecPure == InitPure /\ [][NextPure]_vars

---------------------------------------------------------------------------
(* The claims.                                                              *)

\* The ten server-initiated message types.
ServerTypes ==
    {S_ON_REGISTERED, S_SHUTDOWN, S_ON_RUN_STEP, S_ON_SIM_BEGIN, S_ON_SIM_STEP,
     S_ON_SIM_END, S_ON_CHECKPOINT_COUNT_CHANGED, S_ON_LAPS_COUNT_CHANGED,
     S_ON_CUSTOM_COMMAND, S_ON_BRUTEFORCE_EVALUATE}

\* C1: at most one client-initiated request is outstanding: no thread writes
\* a request into the region while the worker's request is still waiting for
\* its response (the second call is rejected or delayed).
C1_SingleOutstandingRequest == ~obs.clobbered

C3_HookExceptionKeepsWorker == ~(obs.hookExc /\ pc["w"] = "dead")

\* C4: at most one C_REGISTER is ever written, none while the region is
\* unmapped, and a registered interface has written exactly one.
C4_OneRegister ==
    /\ obs.nRegister <= 1
    /\ obs.nRegister = 1 => mfile
    /\ registered => obs.nRegister = 1

C4_Witness == obs.nRegister = 1 /\ registered /\ hostWrites = 2 /\ pc["w"] = "poll"

\* C5: no server-initiated message reaches a hook before the worker has
\* read the response tag to its C_REGISTER.
C5_NoDispatchBeforeRegistered == obs.dispatched => obs.regResp

\* the host pushed a frame before the registration response, and a hook ran later
C5_Witness == obs.earlyPush /\ obs.dispatched

\* C6 as claimed: on_registered fires at most once whatever the host writes.
C6_OnRegisteredOnce == obs.nOnReg <= 1

\* C6 amended: the worker never polls for server messages without the
\* registration response seen and the flag set, and on_registered has fired
\* once for each S_ON_REGISTERED message taken (the one being dispatched
\* excepted), not once per connection.
C6_OnRegisteredPerMessage ==
    /\ pc["w"] \in {"poll", "poll_read", "skip", "dispatch", "hook"}
          => (registered /\ obs.regResp)
    /\ pc["w"] \notin {"raise", "dead"} =>
          obs.nOnReg = obs.nRegMsgs -
             (IF obs.taken = S_ON_REGISTERED /\ pc["w"] \in {"skip", "dispatch", "hook"}
              THEN 1 ELSE 0)

C6_Witness == obs.nOnReg = 2 /\ pc["w"] = "iter_end"

\* C7 as claimed: while S_SHUTDOWN is handled, on_shutdown is the first
\* callback invoked (before on_deregistered).
C7_ShutdownThenDeregistered ==
    obs.cbs = << >> \/ Head(obs.cbs) = "on_shutdown"

\* C7 amended: while S_SHUTDOWN is handled the worker invokes on_deregistered
\* first and on_shutdown second, and the client is closed (running is false)
\* by the time on_shutdown is invoked.
C7_DeregisteredThenShutdown ==
    /\ obs.cbs \in {<< >>, << "on_deregistered" >>,
                    << "on_deregistered", "on_shutdown" >>}
    /\ Len(obs.cbs) = 2 => ~running

C7_Witness ==
    /\ obs.taken = S_SHUTDOWN
    /\ obs.cbs = << "on_deregistered", "on_shutdown" >>

\* C8: on_deregistered is never invoked before the host has answered the
\* C_DEREGISTER request.
C8_DeregisteredAfterAck == obs.nDereg > 0 => obs.hostAck

\* the C_PROCESSED_CALL payload that answers a bruteforce evaluation in which
\* the callback returned r
BFExpected(r) ==
    pack_i(S_ON_BRUTEFORCE_EVALUATE)
    \o pack_i(IF r.none THEN 0 ELSE r.decision)
    \o pack_i(IF r.none THEN -1 ELSE r.rewind_time)

\* C9: a bruteforce evaluation whose callback returned is answered by
\* exactly one C_PROCESSED_CALL carrying the tag, the decision and the rewind
\* time: CONTINUE (0) and -1 when the callback returned None, the response's
\* own values otherwise.
C9_BruteforceReply ==
    (pc["w"] = "iter_end" /\ obs.taken = S_ON_BRUTEFORCE_EVALUATE)
        => (obs.acks = 1 /\ obs.ackData = BFExpected(obs.bfRet))

C9_Witness ==
    /\ pc["w"] = "iter_end"
    /\ obs.taken = S_ON_BRUTEFORCE_EVALUATE
    /\ obs.bfRet.none
    /\ obs.acks = 1

\* C10: whenever the vector's encoding does not fit in the remaining
\* capacity, _write_vector appends exactly a zero count and sets error_code
\* to RESPONSE_TOO_LONG.
C10_OverflowMarked ==
    (vout.done /\ 4 + vin.item_size * Len(vin.vector)
                     > vin.buffer_size - MsgLen(vin.msg))
        => /\ vout.msg.data = vin.msg.data \o pack_i(0)
           /\ vout.msg.error_code = RESPONSE_TOO_LONG


\* C13: while the region is unmapped the worker is alive and in its loop
\* (it leaves the loop only once running is false), has written no message (no C_REGISTER, the region untouched), and every
\* failed mapping attempt was reported exactly once through
\* on_client_exception and is followed by another pass of the loop; once
\* the region is mapped and nothing was registered yet, the worker is on its
\* way to write C_REGISTER.
C13_MapFailureRetried ==
    /\ ~mfile => /\ pc["w"] \in {"idle", "loop", "connect"}
                                 \cup (IF running THEN {} ELSE {"done"})
                 /\ obs.nRegister = 0
                 /\ buf = Zeros(BufSize)
                 /\ obs.mapExc = IF obs.mapFail THEN 1 ELSE 0
    /\ obs.mapFail => /\ ~mfile
                       /\ pc["w"] \in {"loop", "connect"}
                                       \cup (IF running THEN {} ELSE {"done"})
    /\ (mfile /\ obs.nRegister = 0)
          => pc["w"] \in {"chk_reg", "send_seek0", "send_write"}

\* a mapping attempt failed and the worker is about to try again
C13_Witness == obs.mapFail /\ obs.mapExc = 1 /\ pc["w"] = "connect" /\ ~mfile

\* C18: a register_custom_command answered with COMMAND_ALREADY_REGISTERED
\* inside a hook does not end the worker.
C18_DuplicateCommandNotFatal == ~(obs.dupCmd /\ pc["w"] = "dead")


\* C11: every message handed to _send_message is at most buffer_size bytes
\* long (header included), so its write into the region never fails.
C11_MessageFitsRegion ==
    (vout.done /\ vin.op \in {"log", "set_input_state", "set_event_buffer"})
        => (MsgLen(vout.msg) <= vin.buffer_size /\ ~vout.raised)

\* C12: log(message) with 16 + len(message) > buffer_size hands over exactly
\* the 16 bytes type C_LOG, error code RESPONSE_TOO_LONG, severity id and a
\* zero count; the region holds them with the ready marker and is unchanged
\* from offset 16 on.
C12_OversizedLog ==
    (vout.done /\ vin.op = "log" /\ 16 + Len(vin.message) > vin.buffer_size)
        => /\ vout.msg.type = C_LOG
           /\ vout.msg.error_code = RESPONSE_TOO_LONG
           /\ vout.msg.data = pack_i(IF vin.severity = "error" THEN 3 ELSE 0)
                                 \o pack_i(0)
           /\ ~vout.raised
           /\ \A i \in 1..vin.buffer_size :
                 vout.region[i] = IF i = 2 THEN 255
                                  ELSE IF i <= 16 THEN to_data(vout.msg)[i]
                                  ELSE 170

\* how many of the count items of a vector lie wholly inside a region of len bytes
WholeItems(count, size, len) == Min(count, (len - 4) \div size)

\* C14: reading a vector whose count is larger than the bytes left returns
\* count values, 0 for every item that could not be read whole, reports
\* each of those short reads once through on_client_exception, and raises
\* nothing.
C14_ShortReadYieldsZero ==
    (vout.done /\ vin.op = "read_vector") =>
        /\ ~vout.raised
        /\ IF vin.buffer_size < 4
           THEN vout.vals = << >> /\ vout.excs = 0
           ELSE LET count == unpack_i(SubSeq(vin.region, 1, 4))
                    whole == WholeItems(count, vin.item_size, vin.buffer_size)
                IN  /\ Len(vout.vals) = count
                    /\ vout.excs = count - whole
                    /\ \A i \in 1..count : i > whole => vout.vals[i] = 0

C14_Witness ==
    /\ vout.done /\ vin.op = "read_vector"
    /\ vout.excs = 2
    /\ Len(vout.vals) = 3 /\ vout.vals[1] # 0 /\ vout.vals[3] = 0

\* C19: the C_SET_INPUT_STATES payload is the six int32 fields left, right,
\* accelerate, brake, steer, gas: 1 or 0 for a binary keyword passed as
\* True or False, -1 when it was not passed; the passed value for an analog
\* keyword, 2^31-1 when it was not passed.
C19_InputStatePayload ==
    (vout.done /\ vin.op = "set_input_state") =>
        LET kw == vin.kwargs
            field(i) == unpack_i(SubSeq(vout.msg.data, 4 * i - 3, 4 * i))
            names == << "left", "right", "accelerate", "brake", "steer", "gas" >>
        IN  /\ vout.msg.type = C_SET_INPUT_STATES
            /\ Len(vout.msg.data) = 24
            /\ \A i \in 1..4 :
                  field(i) = IF names[i] \notin DOMAIN kw THEN -1
                             ELSE IF kw[names[i]] THEN 1 ELSE 0
            /\ \A i \in 5..6 :
                  field(i) = IF names[i] \notin DOMAIN kw THEN 2147483647
                             ELSE kw[names[i]]

C19_Witness ==
    /\ vout.done /\ vin.op = "set_input_state"
    /\ DOMAIN vin.kwargs = {"left", "brake", "gas"}
    /\ vin.kwargs["left"] /\ ~vin.kwargs["brake"] /\ vin.kwargs["gas"] = -3
    /\ ~vout.raised


\* C15: on the worker, when a client-initiated request is written after an
\* earlier one, the region was cleared to zero in between, whether the
\* earlier call returned or raised ServerException.
C15_ClearedBetweenRequests == ~obs.unclean


\* C16: a query (get_context_mode, get_checkpoint_state,
\* get_simulation_state, get_event_buffer) sends its request with an empty
\* payload; from the moment its wait sees the response tag to the end of
\* decoding the region is as the wait saw it; and the step that takes the
\* call to its return is the one that overwrites the whole region with zeros.
C16_QueryDecodesThenClears ==
    /\ [](/\ (pc["w"] \in {"send_write", "send_seek1", "send_mark"}
                 /\ Len(stk["w"]) >= 2 /\ stk["w"][2] = "q_read")
              => (frame.call \in Queries
                    /\ msg["w"] = QueryMsg(frame.call)
                    /\ Len(to_data(msg["w"])) = 8)
          /\ (pc["w"] \in {"q_read", "q_decode"}) => (buf = frame.snap)
          /\ (pc["w"] = "clr_seek" /\ Head(stk["w"]) = "q_ret")
              => (buf = frame.snap))
    /\ [][(pc'["w"] = "q_ret" /\ pc["w"] # "q_ret")
            => (pc["w"] = "clr_write"
                  /\ buf' = Zeros(BufSize)
                  /\ frame.snap[1] = S_RESPONSE)]_vars

\* get_simulation_state is about to return the state it decoded from a
\* response that the region no longer holds
C16_Witness ==
    /\ pc["w"] = "q_ret"
    /\ frame.call = "get_simulation_state"
    /\ frame.result # << >>
    /\ frame.snap # Zeros(BufSize)
    /\ buf = Zeros(BufSize)


\* C17: once get_simulation_state or get_checkpoint_state has read the
\* error code NO_PLAYER_INFO, or get_event_buffer the code NO_EVENT_BUFFER,
\* the call ends by raising ServerException: it never reaches its return, no
\* result is made, and what the caller holds from an earlier call is as it
\* was when the call began.
C17_QueryErrorRaises ==
    ((frame.call \in {"get_simulation_state", "get_checkpoint_state"}
         /\ frame.err = NO_PLAYER_INFO)
      \/ (frame.call = "get_event_buffer" /\ frame.err = NO_EVENT_BUFFER))
    => (/\ pc["w"] # "q_ret"
        /\ ~(pc["w"] \in {"clr_seek", "clr_write"} /\ Head(stk["w"]) = "q_ret")
        /\ (pc["w"] # "q_decode") => (frame.exc \in {"ServerException", "caught"})
        /\ ~frame.returned
        /\ frame.result = << >>
        /\ obs.held = frame.held0)

\* get_simulation_state raised on NO_PLAYER_INFO in a hook that holds the
\* state an earlier call returned
C17_Witness ==
    /\ frame.call = "get_simulation_state"
    /\ frame.err = NO_PLAYER_INFO
    /\ frame.exc = "ServerException"
    /\ pc["w"] = "raise"
    /\ obs.held # << >>
    /\ obs.held = frame.held0


\* C20: the requests set_input_state, respawn or horn has written so far are
\* the beginning of C_GET_CONTEXT_MODE, C_SIM_GET_EVENT_BUFFER,
\* C_SIM_SET_EVENT_BUFFER, final request when the mode returned is
\* MODE_SIMULATION and the clear flag is true, and of C_GET_CONTEXT_MODE,
\* final request otherwise; and each of them is written only when the
\* response to the one before was consumed and cleared from the region.
C20_ContextModeThenClearThenInput ==
    (frame.outer # "" /\ frame.exc = "")
    => LET final == CASE frame.outer = "set_input_state" -> C_SET_INPUT_STATES
                      [] frame.outer = "respawn" -> C_RESPAWN
                      [] frame.outer = "horn" -> C_HORN
           full == IF frame.mode = MODE_SIMULATION /\ frame.flag
                   THEN << C_GET_CONTEXT_MODE, C_SIM_GET_EVENT_BUFFER,
                           C_SIM_SET_EVENT_BUFFER, final >>
                   ELSE << C_GET_CONTEXT_MODE, final >>
       IN  /\ Len(obs.reqs) <= Len(full)
           /\ obs.reqs = SubSeq(full, 1, Len(obs.reqs))
           /\ (pc["w"] = "send_write" /\ Head(stk["w"]) = "wait_seek")
                => ~obs.pending

\* set_input_state with the clear flag, in a simulation, has sent all four
\* requests
C20_Witness ==
    /\ frame.outer = "set_input_state"
    /\ frame.flag
    /\ frame.mode = MODE_SIMULATION
    /\ obs.reqs = << C_GET_CONTEXT_MODE, C_SIM_GET_EVENT_BUFFER,
                     C_SIM_SET_EVENT_BUFFER, C_SET_INPUT_STATES >>
    /\ pc["w"] = "respond"


\* C21: a register call returns True, stores the client and leaves a thread
\* running exactly when no client was stored and the interface was not
\* registered; otherwise it returns False and changes neither the client,
\* the flag nor the thread. A thread is only ever started by a call that
\* finds no client stored, and a stored client stays stored, so at most one
\* thread is started.
C21_RegisterOnce ==
    /\ [][((pc["a"] = "start" /\ pc'["a"] = "main")
             \/ (pc["w"] = "hook" /\ frame'.call = "register"))
          => LET ret == IF pc["w"] = "hook" THEN frame'.result[1]
                        ELSE obs'.regRet[1]
             IN  IF ~client /\ ~registered
                 THEN ret /\ client' /\ thread' /\ ~registered'
                 ELSE ~ret /\ (client' = client) /\ (thread' = thread)
                           /\ (registered' = registered)
                           /\ (pc'["w"] = "idle" <=> pc["w"] = "idle")]_vars
    /\ [][(~thread /\ thread') => (~client /\ pc["w"] = "idle")]_vars
    /\ [][client => client']_vars
    /\ [][pc["w"] # "idle" => pc'["w"] # "idle"]_vars

\* run_client's register returned True and a later register from a hook
\* returned False
C21_Witness ==
    /\ obs.regRet = << TRUE >>
    /\ frame.call = "register"
    /\ frame.result = << FALSE >>
    /\ client /\ thread


\* C22: for each width 1, 2 and 4 and every integer write_int accepts in
\* that width, one of the mirror reads (_read_int of the same width, or for
\* 4 bytes _read_uint32) returns the integer that was written.
C22_IntRoundTrip ==
    (vout.done /\ vin.op = "write_int" /\ ~vout.raised)
        => \E i \in 1..Len(vout.vals) : vout.vals[i] = vin.args[1]


\* C23: for every v in [-65536, 65536] and in the extended range
\* [-6553600, 6553600], data_to_analog_value(analog_value_to_data(v)) = v.
C23_AnalogRoundTrip ==
    (vout.done /\ vin.op = "analog"
        /\ vin.args[1] >= -6553600 /\ vin.args[1] <= 6553600)
        => vout.vals[2] = vin.args[1]

\* the end of the extended range went through both conversions
C23_Witness ==
    /\ vout.done /\ vin.op = "analog"
    /\ vin.args[1] = -6553600
    /\ vout.vals = << 6553600, -6553600 >>


WorkerOver == pc["w"] \in {"done", "dead"}

\* The worker is inside _wait_for_server_response and the region does not
\* hold the host's S_RESPONSE.
Unanswered ==
    /\ pc["w"] \in {"wait_seek", "wait_read"}
    /\ ~IsResponse(read_int32_at(buf, 0).v)

\* C25: once close() has set running to false the worker starts no new loop
\* iteration (the loop head only leaves for the end of _main_thread), and it
\* goes on until it has terminated, unless it is waiting for a response the
\* host has not given.
C25_WorkerStopsAfterClose ==
    /\ [][(~running /\ pc["w"] = "loop") => pc'["w"] \in {"loop", "done"}]_vars
    /\ (~running /\ pc["w"] # "idle") ~> (WorkerOver \/ Unanswered)

\* close() ran on the main thread while the worker was inside an iteration,
\* and the worker is finishing that iteration: it is about to acknowledge
\* the message it took.
C25_Witness ==
    /\ ~running
    /\ signals = 1
    /\ pc["w"] = "respond"
    /\ obs.taken # 0

\* C26: run_client returns only when running is false, and once the client
\* has been deregistered (close() has run to its end, or the host has
\* deregistered the client on its own) run_client eventually returns.
C26_ReturnsOnceDeregistered ==
    /\ [](pc["a"] = "returned" => ~running)
    /\ (~running \/ obs.hostDereg) ~> (pc["a"] = "returned")

\* Region b starts with the whole of message m, marked ready.
RegionHolds(b, m) ==
    LET d == to_data(m)
    IN  Len(d) <= BufSize /\ SubSeq(b, 1, Len(d)) = [d EXCEPT ![2] = 255]

\* C27: whenever a write of _send_message makes the byte at offset 1
\* non-zero, the region holds from offset 0 the whole of a message being
\* sent: the marker never shows over a mix of messages.
C27_MarkerAfterMessage ==
    [][\A t \in Threads :
          (/\ pc[t] \in {"send_write", "send_mark"}
           /\ pc'[t] # pc[t]
           /\ buf[2] = 0
           /\ buf'[2] # 0)
          => \E u \in Threads : msg[u] # None /\ RegionHolds(buf', msg[u])]_vars

\* C28: on a state whose flag bit is unset every getter returns its default
\* (time, display_speed and race_time the int 0; position, velocity and
\* yaw_pitch_roll [0, 0, 0]; rotation_matrix three rows of zeros) and every
\* setter leaves the state as it was.
C28_AccessorDefaults ==
    (vin.op = "accessors" /\ vout.done) =>
        LET st == vin.args[1]
            get == vout.vals.get
            zeros == Py("list", << 0, 0, 0 >>)
        IN  /\ BitUnset(st.flags, SIM_HAS_TIMERS) => get["time"] = Py("int", 0)
            /\ BitUnset(st.flags, SIM_HAS_DYNA) =>
                  /\ get["position"] = zeros
                  /\ get["velocity"] = zeros
                  /\ get["yaw_pitch_roll"] = zeros
                  /\ get["rotation_matrix"] =
                        Py("list", << << 0, 0, 0 >>, << 0, 0, 0 >>, << 0, 0, 0 >> >>)
                  /\ \A n \in Setters :
                        vout.vals.set[n] = [state |-> st, exc |-> ""]
            /\ BitUnset(st.flags, SIM_HAS_PLAYER_INFO) =>
                  /\ get["display_speed"] = Py("int", 0)
                  /\ get["race_time"] = Py("int", 0)

\* C29: parse_time_range of a string without '-' is (parse_time of it, -1);
\* of 'a-b' (a up to the first '-') it is the two parsed times in ascending
\* order, swapped exactly when the first is greater than the second.
C29_TimeRangeOrdered ==
    (vin.op = "parse_time_range" /\ vout.done) =>
        LET str == vin.args[1]
            dash == {i \in 1..Len(str) : str[i] = "-"}
        IN  IF dash = {} THEN vout.vals = << parse_time(str), -1 >>
            ELSE LET k == CHOOSE i \in dash : \A j \in dash : i <= j
                     a == parse_time(SubSeq(str, 1, k - 1))
                     b == parse_time(SubSeq(str, k + 1, Len(str)))
                 IN  /\ vout.vals[1] <= vout.vals[2]
                     /\ {vout.vals[1], vout.vals[2]} = {a, b}
                     /\ (vout.vals = << b, a >> /\ a # b) <=> a > b

\* A range given with the later time first has been parsed and swapped.
C29_Witness ==
    /\ vin.op = "parse_time_range" /\ vout.done
    /\ vin.args[1] = << "2", ".", "1", "-", "1", "2" >>
    /\ vout.vals = << 12, 2100 >>

\* What the claim expects of the timed entry made from arguments rest at
\* time t: an input in the state its command gives (0 when ending), or the
\* command itself with its arguments and is_ending.
TimedEntryFor(entry, rest, t, ending) ==
    LET press == << "p", "r", "e", "s", "s" >>
        presses == {press, << "r", "e", "l" >>}
        analogs == {<< "s", "t", "e", "e", "r" >>, << "g", "a", "s" >>}
    IN  /\ entry.timestamp = t
        /\ IF Len(rest) >= 2 /\ rest[1] \in presses
           THEN /\ entry.cls = "InputCommand"
                /\ entry.input_type = from_str(rest[2])
                /\ entry.state = IF rest[1] = press /\ ~ending THEN 1 ELSE 0
           ELSE IF Len(rest) >= 2 /\ rest[1] \in analogs
           THEN int(rest[2]).ValueError
                \/ /\ entry.cls = "InputCommand"
                   /\ entry.input_type = from_str(rest[1])
                   /\ entry.state = IF ending THEN 0 ELSE int(rest[2]).v
           ELSE entry = TimedCommand(rest, t, ending)

\* C30: a command whose first token is a range with both ends valid adds two
\* timed entries, the earlier one not ending and the later one ending; a
\* single timestamp adds one timed entry; a first token that is not a time
\* adds one immediate Command and no timed entry.
C30_RangeAddsTwoEntries ==
    (vin.op = "parse_command" /\ vout.done) =>
        LET first == vin.args[1]
            rest == Tail(vin.args)
            cl == vout.vals
            dash == {i \in 1..Len(first) : first[i] = "-"}
        IN  IF dash = {}
            THEN IF parse_time(first) # -1
                 THEN /\ cl.commands = << >>
                      /\ Len(cl.timed_commands) = 1
                      /\ TimedEntryFor(cl.timed_commands[1], rest,
                                       parse_time(first), FALSE)
                 ELSE /\ cl.commands = << Command(vin.args) >>
                      /\ cl.timed_commands = << >>
            ELSE LET k == CHOOSE i \in dash : \A j \in dash : i <= j
                     a == parse_time(SubSeq(first, 1, k - 1))
                     b == parse_time(SubSeq(first, k + 1, Len(first)))
                 IN  (a # -1 /\ b # -1) =>
                        /\ cl.commands = << >>
                        /\ Len(cl.timed_commands) = 2
                        /\ TimedEntryFor(cl.timed_commands[1], rest,
                                         Min(a, b), FALSE)
                        /\ TimedEntryFor(cl.timed_commands[2], rest,
                                         IF a > b THEN a ELSE b, TRUE)

\* '2.5-1 press up' has been parsed: up is pressed at 1 and released at 2500.
C30_Witness ==
    /\ vin.op = "parse_command" /\ vout.done
    /\ vin.args = << << "2", ".", "5", "-", "1" >>,
                     << "p", "r", "e", "s", "s" >>, << "u", "p" >> >>
    /\ vout.vals.timed_commands =
          << InputCommand(1, 0, 1), InputCommand(2500, 0, 0) >>

---------------------------------------------------------------------------
(* The order of decoding, hook and acknowledgement.                         *)

\* The worker's write of a C_PROCESSED_CALL frame into the region.
AckWritten ==
    /\ pc["w"] = "send_write"
    /\ msg["w"].type = C_PROCESSED_CALL
    /\ pc'["w"] = "send_seek1"

\* C31: when the worker is about to invoke a hook it has already read the
\* arguments, and they are the arguments the server message carried when the
\* worker took it; the C_PROCESSED_CALL frame is written only after the hook
\* has been invoked and has returned, with no request of the hook still
\* waiting for its response; and the arguments the hook was given do not
\* change while the hook's own requests overwrite and clear the region.
C31_ArgsThenHookThenAck ==
    /\ [](pc["w"] \in {"hook", "bf_hook"}
            => (~obs.hooked /\ obs.hookArgs = obs.msgArgs))
    /\ [][AckWritten => (obs.hooked /\ ~obs.awaiting)]_vars
    /\ [][(obs.hooked /\ obs'.hooked) => obs'.hookArgs = obs.hookArgs]_vars

---------------------------------------------------------------------------
(* Polling a region that holds nothing for the client.                      *)

\* The tag at offset 0 is one of the client's own message types with the
\* marker, or has no marker bit at all.
OwnOrUnmarked(b) ==
    LET v == read_int32_at(b, 0).v
    IN  MarkerBits(v) = 0 \/ LowByte(v) \in C_REGISTER..C_LOG

\* The worker has taken a step.
WorkerMoved == pc'["w"] # pc["w"]

\* A step of a call of _process_server_message that found nothing for the
\* client: the read leads to the end of the iteration, directly or through
\* the skip and the fall-through of the dispatch, no hook is invoked and no
\* byte of the region changes.
QuietPoll ==
    /\ (pc["w"] = "poll_read" /\ WorkerMoved /\ OwnOrUnmarked(buf))
         => /\ buf' = buf
            /\ ~obs'.hooked
            /\ \/ pc'["w"] = "iter_end"
               \/ pc'["w"] = "skip" /\ msgtype' \in C_REGISTER..C_LOG
    /\ (pc["w"] \in {"skip", "dispatch"} /\ WorkerMoved
          /\ msgtype \in C_REGISTER..C_LOG)
         => /\ buf' = buf
            /\ ~obs'.hooked
            /\ pc'["w"] = (IF pc["w"] = "skip" THEN "dispatch" ELSE "iter_end")
            /\ msgtype' = msgtype

\* C32: a call of _process_server_message that finds one of the client's own
\* messages (any C_* tag with the marker) or an unmarked tag in the region
\* returns without invoking a hook and without writing to the region, and the
\* worker writes at most one acknowledgement for a message it has taken.
C32_OwnMessageIgnored == [](obs.acks <= 1) /\ [][QuietPoll]_vars

\* The worker has read its own acknowledgement of the previous message and
\* is about to fall through the dispatch.
C32_Witness ==
    /\ pc["w"] = "dispatch"
    /\ msgtype = C_PROCESSED_CALL
    /\ buf[1] = C_PROCESSED_CALL
    /\ buf[2] = 255

---------------------------------------------------------------------------
(* The lifecycle flags of a TMInterface object.                             *)

\* A call of register that has returned True in this step.
RegisterAccepted ==
    \/ pc["a"] = "start" /\ pc'["a"] = "main" /\ obs'.regRet = << TRUE >>
    \/ pc["w"] = "hook" /\ frame'.call = "register" /\ frame'.result = << TRUE >>

\* C33: no step unmaps the region or maps it while it is mapped (a new mmap
\* object would start at position 0: _ensure_connected leaves the position
\* of a mapped region alone), none turns
\* registered from True to False or running from False to True, and none
\* clears or replaces the stored client: register stores a client only while
\* none is stored.
C33_FlagsMoveForward ==
    [][/\ mfile => (mfile' /\ ((pc["w"] = "connect" /\ WorkerMoved) => pos' = pos))
       /\ registered => registered'
       /\ ~running => ~running'
       /\ client => (client' /\ ~RegisterAccepted)]_vars

\* Every flag has made its move: the region is mapped, the client is stored
\* and registered, close() has run and the worker has left its loop.
C33_Witness ==
    /\ mfile
    /\ registered
    /\ client
    /\ ~running
    /\ obs.nDereg > 0
    /\ pc["w"] = "done"

\* C34: over the life of a TMInterface object at most one C_DEREGISTER frame
\* is written and on_deregistered is invoked at most once.
C34_DeregisteredOnce == obs.nDeregMsgs <= 1 /\ obs.nDereg <= 1

\* A register call made by a hook on the worker returns in this step.
RegisterCall ==
    /\ pc["w"] \in {"hook", "sd_hook"}
    /\ WorkerMoved
    /\ frame'.call = "register"

\* run_client's register has stored a client.
ClientWasStored == obs.regRet = << TRUE >>

\* C35: once close() has run on an interface whose register had stored a
\* client, a register call returns False and changes neither the client, the
\* flag nor the thread; no thread is started; and no C_REGISTER frame is
\* written after the one of the registration.
C35_ClosedStaysClosed ==
    /\ [][(~running /\ ClientWasStored /\ RegisterCall)
            => /\ frame'.result = << FALSE >>
               /\ client' = client
               /\ registered' = registered
               /\ thread' = thread]_vars
    /\ [][(~running /\ ClientWasStored) => ~(~thread /\ thread')]_vars
    /\ [][(~running /\ ClientWasStored /\ registered)
            => obs'.nRegister = obs.nRegister]_vars
    /\ [](obs.nRegister <= 1)

\* on_shutdown has called register after the close() and got False.
C35_Witness ==
    /\ ~running
    /\ obs.nDereg = 1
    /\ ~thread
    /\ pc["w"] = "iter_end"
    /\ frame.call = "register"
    /\ frame.result = << FALSE >>

---------------------------------------------------------------------------
(* The response to C_REGISTER.                                              *)

\* The worker is between the response tag of its C_REGISTER and the
\* assignment of the flag.
Registering == pc["w"] \in {"clr_seek", "clr_write", "reg_set"}

\* C36: once the worker has seen the response tag to its C_REGISTER, the flag
\* is set as soon as the region is cleared, whatever error code the response
\* carried: the wait ends on the tag alone and only the tag was read, no
\* exception is raised on the way, and the worker polls for server messages.
C36_RegisteredWhateverError ==
    /\ [](obs.regResp => (registered \/ Registering))
    /\ [][(pc["w"] = "wait_read" /\ Head(stk["w"]) = "reg_set" /\ WorkerMoved
             /\ read_int32_at(buf, 0).v = ResponseTag)
            => (pc'["w"] = "clr_seek" /\ pos' = 4)]_vars
    /\ [][(pc["w"] = "reg_set" /\ WorkerMoved)
            => (registered' /\ pc'["w"] = "poll")]_vars
    /\ []((obs.regResp /\ obs.taken = 0) => pc["w"] \notin {"raise", "dead"})

\* The host answered C_REGISTER with CLIENT_ALREADY_REGISTERED, and in the
\* same iteration the registered worker is about to invoke a hook.
C36_Witness ==
    /\ obs.regErr = CLIENT_ALREADY_REGISTERED
    /\ registered
    /\ pc["w"] = "hook"
    /\ obs.taken = S_ON_RUN_STEP
    /\ ~obs.hookExc

---------------------------------------------------------------------------
(* set_input_state, respawn and horn when the event buffer cannot be read.  *)

\* The event-buffer fetch of the set_input_state, respawn or horn call in
\* progress has read the error code NO_EVENT_BUFFER.
FetchFailed == frame.outer # "" /\ frame.err = NO_EVENT_BUFFER

\* C37: when the event-buffer fetch inside set_input_state, respawn or horn
\* reads NO_EVENT_BUFFER, the call raises ServerException at that read; the
\* requests the call has written are C_GET_CONTEXT_MODE and
\* C_SIM_GET_EVENT_BUFFER and nothing else, and no C_SIM_SET_EVENT_BUFFER,
\* C_SET_INPUT_STATES, C_RESPAWN or C_HORN frame is written afterwards.
C37_FetchFailureStopsCall ==
    /\ [](FetchFailed
            => /\ frame.exc \in {"ServerException", "caught"}
               /\ frame.mode = MODE_SIMULATION /\ frame.flag
               /\ obs.reqs = << C_GET_CONTEXT_MODE, C_SIM_GET_EVENT_BUFFER >>
               /\ (frame.exc = "ServerException" => pc["w"] = "raise"))
    /\ [][(pc["w"] = "q_read" /\ WorkerMoved /\ frame.outer # ""
             /\ frame.call = "get_event_buffer"
             /\ read_int32_at(buf, 4).v = NO_EVENT_BUFFER)
            => (pc'["w"] = "raise" /\ buf' = buf)]_vars
    /\ [][(FetchFailed /\ pc["w"] = "send_write" /\ WorkerMoved)
            => msg["w"].type \notin {C_SIM_SET_EVENT_BUFFER, C_SET_INPUT_STATES,
                                     C_RESPAWN, C_HORN}]_vars

\* respawn() has raised ServerException out of its event-buffer fetch.
C37_Witness ==
    /\ pc["w"] = "raise"
    /\ frame.outer = "respawn"
    /\ frame.exc = "ServerException"
    /\ frame.err = NO_EVENT_BUFFER
    /\ buf[1] = S_RESPONSE
    /\ buf[5] = NO_EVENT_BUFFER

---------------------------------------------------------------------------
(* SimStateData: the setters on a state that has the dyna block.            *)

\* C38: on a state whose SIM_HAS_DYNA bit is set, assigning velocity stores
\* the vector in linear_speed and assigning position stores it in position;
\* neither raises and neither changes anything else.
C38_VelocitySetterStores ==
    (vin.op = "accessors" /\ vout.done
       /\ ~BitUnset(vin.args[1].flags, SIM_HAS_DYNA)) =>
        LET st == vin.args[1]
            new == << 9, 9, 9 >>
        IN  /\ vout.vals.set["velocity"] =
                  [state |-> [st EXCEPT !.linear_speed = new], exc |-> ""]
            /\ vout.vals.set["position"] =
                  [state |-> [st EXCEPT !.position = new], exc |-> ""]

====
